---- MODULE Spec2Model ----
(***************************************************************************)
(* BunQL: the WHERE-clause condition compiler (where-builder), the         *)
(* operator normalizer and the fluent statement builders (QueryBuilder,    *)
(* UpdateBuilder, DeleteBuilder), as state machines.                       *)
(*                                                                         *)
(* SQL text is represented by its sequence of lexical tokens: the text is  *)
(* the tokens joined by blanks.  A quoted identifier "col" is one token    *)
(* that keeps its double quotes, a placeholder is the token "?".  An empty *)
(* string is the empty sequence, so JavaScript's truthiness test of a      *)
(* rendered fragment is the test for a non-empty sequence.                 *)
(*                                                                         *)
(* JavaScript values are tagged records (field t), and an object is the    *)
(* sequence of its [k, v] entries in insertion order, which is the order   *)
(* of Object.keys().                                                       *)
(***************************************************************************)
EXTENDS Integers, Sequences, FiniteSets, TLC

VARIABLES
  builder,         \* the fields of the one builder instance under construction
  lastCall,        \* the call that produced the current state: [op, ...arguments]
  input,           \* the argument of a pure function under test (SpecCompile),
                   \* the builder a terminal call was made on (SpecExec)
  output,          \* the value the pure function returned (SpecCompile)
  db,              \* the database: the rows of the table, changes(), last rowid
  statementCache,  \* the SQL texts that have a prepared statement in the cache
  executed,        \* the statements the last terminal call handed to the engine
  returned,        \* what the last terminal call returned, or that it threw
  terminals        \* the number of terminal calls made so far

vars ==
  <<builder, lastCall, input, output, db, statementCache, executed, returned,
    terminals>>

\* what only the terminal calls change
world == <<db, statementCache, executed, returned, terminals>>

---------------------------------------------------------------------------
(* JavaScript values *)

Undefined == [t |-> "undefined"]
Null == [t |-> "null"]
Scalar(s) == [t |-> "scalar", s |-> s]
Bool(b) == [t |-> "bool", b |-> b]
Num(n) == [t |-> "number", n |-> n]
Arr(items) == [t |-> "array", items |-> items]
Obj(ents) == [t |-> "object", ents |-> ents]
Entry(k, v) == [k |-> k, v |-> v]

\* `x ? a : b` and `if (x)`: undefined, null and false are falsy.
Truthy(v) == ~(v.t \in {"undefined", "null"}) /\ (v.t = "bool" => v.b)

\* `key in obj`
HasKey(ents, key) == \E i \in 1..Len(ents) : ents[i].k = key

\* `obj[key]`: undefined when the key is absent
GetKey(ents, key) ==
  IF HasKey(ents, key)
  THEN ents[CHOOSE i \in 1..Len(ents) : ents[i].k = key].v
  ELSE Undefined

\* the integer-like property names, which JavaScript enumerates first and in
\* ascending order, before the other names in insertion order
indexKeys == <<"0", "1", "2", "3", "4", "5", "6", "7", "8", "9">>

IsIndexKey(key) == \E i \in 1..Len(indexKeys) : indexKeys[i] = key

IndexOfKey(key) == CHOOSE i \in 1..Len(indexKeys) : indexKeys[i] = key

\* `obj[key] = v`: an existing key keeps its position; a new integer-like key
\* goes after the smaller integer-like keys; any other new key is appended
SetKey(ents, key, v) ==
  IF HasKey(ents, key)
  THEN [i \in 1..Len(ents) |-> IF ents[i].k = key THEN Entry(key, v) ELSE ents[i]]
  ELSE IF IsIndexKey(key)
  THEN LET before == SelectSeq(ents, LAMBDA e :
                       IsIndexKey(e.k) /\ IndexOfKey(e.k) < IndexOfKey(key))
           after == SelectSeq(ents, LAMBDA e :
                       ~(IsIndexKey(e.k) /\ IndexOfKey(e.k) < IndexOfKey(key)))
       IN before \o <<Entry(key, v)>> \o after
  ELSE Append(ents, Entry(key, v))

\* Object.keys(obj)
ObjectKeys(ents) == [i \in 1..Len(ents) |-> ents[i].k]

\* Object.values(obj)
ObjectValues(ents) == [i \in 1..Len(ents) |-> ents[i].v]

RECURSIVE SpreadLeft(_, _)
\* a mutation of Spread: the earlier value of a repeated key wins
SpreadLeft(a, b) ==
  IF b = <<>> THEN a
  ELSE SpreadLeft(IF HasKey(a, Head(b).k) THEN a ELSE Append(a, Head(b)), Tail(b))

RECURSIVE Spread(_, _)
\* `{ ...a, ...b }`
Spread(a, b) ==
  IF b = <<>> THEN a
  ELSE Spread(SetKey(a, Head(b).k, Head(b).v), Tail(b))

RECURSIVE Join(_, _)
\* parts.join(sep) on rendered fragments: the separator stands between every
\* two elements, also next to an empty one
Join(parts, sep) ==
  IF parts = <<>> THEN <<>>
  ELSE IF Len(parts) = 1 THEN parts[1]
  ELSE parts[1] \o <<sep>> \o Join(Tail(parts), sep)

RECURSIVE Concat(_)
\* params.push(...list) for each list in turn
Concat(lists) ==
  IF lists = <<>> THEN <<>> ELSE Head(lists) \o Concat(Tail(lists))

\* `"${name}"`
Quote(name) == "\"" \o name \o "\""

\* list.map(() => "?").join(", ")
Placeholders(n) == Join([i \in 1..n |-> <<"?">>], ",")

---------------------------------------------------------------------------
(* where-builder: isWhereOperator, operatorToCondition, buildCondition,    *)
(* buildWhereClause                                                        *)

ops ==
  <<"$eq", "$ne", "$gt", "$gte", "$lt", "$lte", "$like", "$notLike",
    "$in", "$notIn", "$between", "$isNull">>

\* the order of the `if (op.$tag !== undefined)` statements of buildCondition
checks ==
  <<"$eq", "$ne", "$gt", "$gte", "$lt", "$lte", "$like", "$notLike",
    "$in", "$notIn", "$between", "$isNull">>

isWhereOperator(value) ==
  /\ value.t = "object"
  /\ \E i \in 1..Len(ops) : HasKey(value.ents, ops[i])

\* a mutation of operatorToCondition: "<=" is taken for "<"
operatorToConditionLteAsLt(operator, value) ==
  CASE operator = "=" -> Obj(<<Entry("$eq", value)>>)
    [] operator \in {"!=", "<>"} -> Obj(<<Entry("$ne", value)>>)
    [] operator = ">" -> Obj(<<Entry("$gt", value)>>)
    [] operator = ">=" -> Obj(<<Entry("$gte", value)>>)
    [] operator \in {"<", "<="} -> Obj(<<Entry("$lt", value)>>)
    [] operator = "LIKE" -> Obj(<<Entry("$like", value)>>)
    [] operator = "NOT LIKE" -> Obj(<<Entry("$notLike", value)>>)
    [] OTHER -> Obj(<<Entry("$eq", value)>>)

operatorToCondition(operator, value) ==
  CASE operator = "=" -> Obj(<<Entry("$eq", value)>>)
    [] operator \in {"!=", "<>"} -> Obj(<<Entry("$ne", value)>>)
    [] operator = ">" -> Obj(<<Entry("$gt", value)>>)
    [] operator = ">=" -> Obj(<<Entry("$gte", value)>>)
    [] operator = "<" -> Obj(<<Entry("$lt", value)>>)
    [] operator = "<=" -> Obj(<<Entry("$lte", value)>>)
    [] operator = "LIKE" -> Obj(<<Entry("$like", value)>>)
    [] operator = "NOT LIKE" -> Obj(<<Entry("$notLike", value)>>)
    [] OTHER -> Obj(<<Entry("$eq", value)>>)

\* one `if (...) { params.push(...); conditions.push(...) }` of buildCondition
PushIf(acc, test, fragment, pushed) ==
  IF test
  THEN [conditions |-> Append(acc.conditions, fragment),
        params |-> acc.params \o pushed]
  ELSE acc

\* Array.isArray(v)
IsArray(v) == v.t = "array"

\* v[i] of an array (0-based in the source), undefined past its end
At(v, i) == IF IsArray(v) /\ i <= Len(v.items) THEN v.items[i] ELSE Undefined

\* the elements of an array payload
Items(v) == IF IsArray(v) THEN v.items ELSE <<>>

\* the operator branch of buildCondition: the tests of the tags in the given
\* order; each tests its payload with `!== undefined` (strict), the mutation
\* tests it for truthiness
CompileBag(column, value, order, strict) ==
  LET op(tag) == GetKey(value.ents, tag)
      Present(v) == IF strict THEN v # Undefined ELSE Truthy(v)
      Simple(acc, tag, sym) ==
        PushIf(acc, Present(op(tag)), <<column, sym, "?">>, <<op(tag)>>)
      List(acc, tag, kw) ==
        PushIf(acc, Present(op(tag)) /\ IsArray(op(tag)),
               <<column>> \o kw \o <<"(">> \o Placeholders(Len(Items(op(tag))))
                 \o <<")">>,
               Items(op(tag)))
      Step(acc, tag) ==
        CASE tag = "$eq" -> Simple(acc, tag, "=")
          [] tag = "$ne" -> Simple(acc, tag, "!=")
          [] tag = "$gt" -> Simple(acc, tag, ">")
          [] tag = "$gte" -> Simple(acc, tag, ">=")
          [] tag = "$lt" -> Simple(acc, tag, "<")
          [] tag = "$lte" -> Simple(acc, tag, "<=")
          [] tag = "$like" -> Simple(acc, tag, "LIKE")
          [] tag = "$notLike" ->
               PushIf(acc, Present(op(tag)),
                      <<column, "NOT", "LIKE", "?">>, <<op(tag)>>)
          [] tag = "$in" -> List(acc, tag, <<"IN">>)
          [] tag = "$notIn" -> List(acc, tag, <<"NOT", "IN">>)
          [] tag = "$between" ->
               PushIf(acc, Present(op(tag)) /\ IsArray(op(tag)),
                      <<column, "BETWEEN", "?", "AND", "?">>,
                      <<At(op(tag), 1), At(op(tag), 2)>>)
          [] tag = "$isNull" ->
               PushIf(acc, Present(op(tag)),
                      IF Truthy(op(tag)) THEN <<column, "IS", "NULL">>
                      ELSE <<column, "IS", "NOT", "NULL">>,
                      <<>>)
      Run[n \in 0..Len(order)] ==
        IF n = 0 THEN [conditions |-> <<>>, params |-> <<>>]
        ELSE Step(Run[n - 1], order[n])
      done == Run[Len(order)]
  IN [sql |-> Join(done.conditions, "AND"), params |-> done.params]

\* a mutation of buildCondition: the tests run in the order the tags were
\* written in the bag
buildConditionWrittenOrder(key, value) ==
  IF isWhereOperator(value)
  THEN CompileBag(Quote(key), value,
                  SelectSeq(ObjectKeys(value.ents),
                            LAMBDA k : \E i \in 1..Len(ops) : ops[i] = k),
                  TRUE)
  ELSE [sql |-> <<Quote(key), "=", "?">>, params |-> <<value>>]

\* a mutation of buildCondition: `if (op.$tag)` in place of
\* `if (op.$tag !== undefined)`
buildConditionTruthy(key, value) ==
  IF isWhereOperator(value)
  THEN CompileBag(Quote(key), value, checks, FALSE)
  ELSE [sql |-> <<Quote(key), "=", "?">>, params |-> <<value>>]

\* a mutation of buildCondition: a scalar is rendered without its parameter
buildConditionNoParam(key, value) ==
  IF isWhereOperator(value)
  THEN CompileBag(Quote(key), value, checks, TRUE)
  ELSE [sql |-> <<Quote(key), "=", "?">>, params |-> <<>>]

\* a value written into SQL text as a literal
LiteralOf(v) ==
  CASE v.t = "number" -> ToString(v.n)
    [] v.t = "scalar" -> "'" \o v.s \o "'"
    [] OTHER -> "NULL"

\* a mutation of buildCondition: a scalar is written into the fragment
buildConditionInline(key, value) ==
  IF isWhereOperator(value)
  THEN CompileBag(Quote(key), value, checks, TRUE)
  ELSE [sql |-> <<Quote(key), "=", LiteralOf(value)>>, params |-> <<>>]

\* buildCondition(key, value, params): the fragment and the parameters it
\* pushed onto params
buildCondition(key, value) ==
  IF isWhereOperator(value)
  THEN CompileBag(Quote(key), value, checks, TRUE)
  ELSE [sql |-> <<Quote(key), "=", "?">>, params |-> <<value>>]

\* buildWhereClause(where, params): the fragment and the parameters pushed
buildWhereClause(where) ==
  IF Len(where) = 0 THEN [sql |-> <<>>, params |-> <<>>]
  ELSE LET conditions == [i \in 1..Len(where) |->
                            buildCondition(where[i].k, where[i].v)]
       IN [sql |-> Join([i \in 1..Len(where) |-> conditions[i].sql], "AND"),
           params |-> Concat([i \in 1..Len(where) |-> conditions[i].params])]

---------------------------------------------------------------------------
(* The builders.  One record holds the fields of a builder instance; kind  *)
(* is its class.  Fields a class does not have keep their initial value.   *)

tableName == "user"

\* the state a constructor leaves (no initialWhere)
NewBuilder(kind, data) ==
  [kind |-> kind,
   _data |-> data,
   _where |-> <<>>,
   _orConditions |-> <<>>,
   _orderBy |-> <<>>,
   _limit |-> Undefined,
   _offset |-> Undefined,
   _select |-> <<"*">>,
   _distinct |-> FALSE,
   _groupBy |-> <<>>,
   _having |-> <<>>,
   _conflictResolution |-> "abort",
   _checkCondition |-> Null]

\* the characters of the column names, for the spread of a string
Characters(s) ==
  CASE s = "status" -> <<"s", "t", "a", "t", "u", "s">>
    [] s = "role" -> <<"r", "o", "l", "e">>
    [] s = "inactive" -> <<"i", "n", "a", "c", "t", "i", "v", "e">>
    [] s = "=" -> <<"=">>
    [] OTHER -> <<>>

\* the own enumerable properties `...x` copies: an object's entries, a
\* string's characters under their indices, nothing for the other values
OwnEntries(x) ==
  CASE x.t = "object" -> x.ents
    [] x.t = "scalar" ->
         [i \in 1..Len(Characters(x.s)) |->
            Entry(indexKeys[i], Scalar(Characters(x.s)[i]))]
    [] OTHER -> <<>>

\* QueryBuilder.where(conditions)
QueryBuilder_where(b, conditions) ==
  [b EXCEPT !._where = Spread(@, OwnEntries(conditions))]

\* QueryBuilder.orWhere(conditions)
QueryBuilder_orWhere(b, conditions) ==
  [b EXCEPT !._orConditions = Append(@, conditions)]

\* QueryBuilder.having(conditions)
QueryBuilder_having(b, conditions) ==
  [b EXCEPT !._having = Spread(@, OwnEntries(conditions))]

\* where(conditionsOrColumn, operator?, value?) of UpdateBuilder and
\* DeleteBuilder (the two bodies are the same text)
Builder_where(b, conditionsOrColumn, operator, value) ==
  IF conditionsOrColumn.t = "scalar" /\ operator # Undefined /\ value # Undefined
  THEN [b EXCEPT !._where =
          Spread(@, <<Entry(conditionsOrColumn.s,
                            operatorToCondition(operator.s, value))>>)]
  ELSE [b EXCEPT !._where = Spread(@, OwnEntries(conditionsOrColumn))]

\* orWhere(conditionsOrColumn, operator?, value?) of UpdateBuilder and
\* DeleteBuilder
Builder_orWhere(b, conditionsOrColumn, operator, value) ==
  IF conditionsOrColumn.t = "scalar" /\ operator # Undefined /\ value # Undefined
  THEN [b EXCEPT !._orConditions =
          Append(@, Obj(<<Entry(conditionsOrColumn.s,
                                operatorToCondition(operator.s, value))>>))]
  ELSE [b EXCEPT !._orConditions = Append(@, conditionsOrColumn)]

\* orderBy(column, direction = "ASC") of the three builders
Builder_orderBy(b, column, direction) ==
  [b EXCEPT !._orderBy = Append(@, [column |-> column, direction |-> direction])]

\* limit(count)
Builder_limit(b, count) == [b EXCEPT !._limit = Num(count)]

\* QueryBuilder.offset(count)
QueryBuilder_offset(b, count) == [b EXCEPT !._offset = Num(count)]

\* QueryBuilder.select(...columns)
QueryBuilder_select(b, columns) == [b EXCEPT !._select = columns]

\* QueryBuilder.distinct()
QueryBuilder_distinct(b) == [b EXCEPT !._distinct = TRUE]

\* QueryBuilder.groupBy(...columns)
QueryBuilder_groupBy(b, columns) == [b EXCEPT !._groupBy = columns]

---------------------------------------------------------------------------
(* Rendering: buildQuery of the three builders.  The result is             *)
(* [sql, params]; the clause fields keep the pieces sql is made of.        *)

\* the compiled OR branches, in registration order
OrBranches(b) ==
  [i \in 1..Len(b._orConditions) |-> buildWhereClause(OwnEntries(b._orConditions[i]))]

\* orClauses: `(${clause})` of every branch
OrClauses(ors) == [i \in 1..Len(ors) |-> <<"(">> \o ors[i].sql \o <<")">>]

\* a mutation of QueryBuilder_whereSql: the OR branches are AND-ed to the
\* AND-state
QueryBuilder_whereSqlAnd(whereClause, orClauses) ==
  LET allConditions == IF whereClause # <<>>
                       THEN <<(<<"(">> \o whereClause \o <<")">>)>> ELSE <<>>
  IN IF whereClause # <<>> \/ Len(orClauses) > 0
     THEN IF Len(orClauses) > 0
          THEN IF Len(allConditions) > 0
               THEN <<"WHERE">> \o Join(allConditions, "AND") \o <<"AND">>
                      \o Join(orClauses, "OR")
               ELSE <<"WHERE">> \o Join(orClauses, "OR")
          ELSE <<"WHERE">> \o whereClause
     ELSE <<>>

\* the WHERE clause QueryBuilder.buildQuery appends to sql
QueryBuilder_whereSql(whereClause, orClauses) ==
  LET allConditions == IF whereClause # <<>>
                       THEN <<(<<"(">> \o whereClause \o <<")">>)>> ELSE <<>>
  IN IF whereClause # <<>> \/ Len(orClauses) > 0
     THEN IF Len(orClauses) > 0
          THEN IF Len(allConditions) > 0
               THEN <<"WHERE">> \o Join(allConditions, "AND") \o <<"OR">>
                      \o Join(orClauses, "OR")
               ELSE <<"WHERE">> \o Join(orClauses, "OR")
          ELSE <<"WHERE">> \o whereClause
     ELSE <<>>

\* a mutation of Builder_whereSql: the OR branches are AND-ed to the
\* AND-state
Builder_whereSqlAnd(whereClause, orClauses) ==
  IF whereClause # <<>> \/ Len(orClauses) > 0
  THEN IF whereClause # <<>> /\ Len(orClauses) > 0
       THEN <<"WHERE", "(">> \o whereClause \o <<")", "AND">>
              \o Join(orClauses, "OR")
       ELSE IF Len(orClauses) > 0
       THEN <<"WHERE">> \o Join(orClauses, "OR")
       ELSE <<"WHERE">> \o whereClause
  ELSE <<>>

\* the WHERE clause UpdateBuilder.buildQuery and DeleteBuilder.buildQuery
\* append to sql
Builder_whereSql(whereClause, orClauses) ==
  IF whereClause # <<>> \/ Len(orClauses) > 0
  THEN IF whereClause # <<>> /\ Len(orClauses) > 0
       THEN <<"WHERE", "(">> \o whereClause \o <<")", "OR">>
              \o Join(orClauses, "OR")
       ELSE IF Len(orClauses) > 0
       THEN <<"WHERE">> \o Join(orClauses, "OR")
       ELSE <<"WHERE">> \o whereClause
  ELSE <<>>

\* the parameters of the OR branches, pushed branch after branch
OrParams(ors) == Concat([i \in 1..Len(ors) |-> ors[i].params])

\* ` GROUP BY "c", ...`
GroupBySql(b) ==
  IF Len(b._groupBy) > 0
  THEN <<"GROUP", "BY">>
         \o Join([i \in 1..Len(b._groupBy) |-> <<Quote(b._groupBy[i])>>], ",")
  ELSE <<>>

\* ` HAVING ...`
HavingSql(havingClause) ==
  IF havingClause # <<>> THEN <<"HAVING">> \o havingClause ELSE <<>>

\* ` ORDER BY "c" ASC, ...`
OrderBySql(b) ==
  IF Len(b._orderBy) > 0
  THEN <<"ORDER", "BY">>
         \o Join([i \in 1..Len(b._orderBy) |->
                    <<Quote(b._orderBy[i].column), b._orderBy[i].direction>>], ",")
  ELSE <<>>

\* ` LIMIT n`
LimitSql(b) ==
  IF b._limit # Undefined THEN <<"LIMIT", ToString(b._limit.n)>> ELSE <<>>

\* ` OFFSET n`
OffsetSql(b) ==
  IF b._offset # Undefined THEN <<"OFFSET", ToString(b._offset.n)>> ELSE <<>>

\* a mutation of QueryBuilder_assemble: ORDER BY is appended before HAVING
QueryBuilder_assembleOrderFirst(head, where, groupBy, having, orderBy, limit, offset) ==
  head \o where \o groupBy \o orderBy \o having \o limit \o offset

\* the order in which QueryBuilder.buildQuery appends the clauses to sql
QueryBuilder_assemble(head, where, groupBy, having, orderBy, limit, offset) ==
  head \o where \o groupBy \o having \o orderBy \o limit \o offset

\* the element of a set of one element; The({F(x) : x \in {e}}) is F of
\* the value of e
The(S) == CHOOSE x \in S : TRUE

\* QueryBuilder.buildQuery()
QueryBuilder_buildQuery(b) ==
  LET selectClause == IF b._distinct THEN <<"SELECT", "DISTINCT">> ELSE <<"SELECT">>
      head == selectClause
                \o Join([i \in 1..Len(b._select) |-> <<b._select[i]>>], ",")
                \o <<"FROM", Quote(tableName)>>
  IN The({[sql |-> QueryBuilder_assemble(
                     head, QueryBuilder_whereSql(where.sql, OrClauses(ors)),
                     GroupBySql(b), HavingSql(having.sql), OrderBySql(b), LimitSql(b),
                     OffsetSql(b)),
           params |-> where.params \o OrParams(ors) \o having.params] :
            where \in {buildWhereClause(b._where)},
            ors \in {OrBranches(b)},
            having \in {buildWhereClause(b._having)}})

\* UpdateBuilder.buildQuery()
UpdateBuilder_buildQuery(b) ==
  LET updateKeys == ObjectKeys(b._data)
      updateValues == ObjectValues(b._data)
      setClauses == Join([i \in 1..Len(updateKeys) |->
                            <<Quote(updateKeys[i]), "=", "?">>], ",")
  IN The({[sql |-> <<"UPDATE", Quote(tableName), "SET">> \o setClauses
                     \o Builder_whereSql(where.sql, OrClauses(ors))
                     \o OrderBySql(b) \o LimitSql(b),
           params |-> updateValues \o where.params \o OrParams(ors)] :
            where \in {buildWhereClause(b._where)}, ors \in {OrBranches(b)}})

\* DeleteBuilder.buildQuery()
DeleteBuilder_buildQuery(b) ==
  The({[sql |-> <<"DELETE", "FROM", Quote(tableName)>>
                  \o Builder_whereSql(where.sql, OrClauses(ors))
                  \o OrderBySql(b) \o LimitSql(b),
        params |-> where.params \o OrParams(ors)] :
         where \in {buildWhereClause(b._where)}, ors \in {OrBranches(b)}})

\* InsertBuilder.ifNotExists(condition)
InsertBuilder_ifNotExists(b, condition) == [b EXCEPT !._checkCondition = condition]

\* InsertBuilder.orIgnore()
InsertBuilder_orIgnore(b) == [b EXCEPT !._conflictResolution = "ignore"]

\* InsertBuilder.orReplace()
InsertBuilder_orReplace(b) == [b EXCEPT !._conflictResolution = "replace"]

\* a mutation of InsertBuilder_buildQuery: "ignore" is rendered as
\* INSERT OR REPLACE
InsertBuilder_buildQueryIgnoreAsReplace(b) ==
  LET keys == ObjectKeys(b._data)
      insertKeyword ==
        IF b._conflictResolution \in {"ignore", "replace"}
        THEN <<"INSERT", "OR", "REPLACE">> ELSE <<"INSERT">>
  IN [sql |-> insertKeyword \o <<"INTO", Quote(tableName), "(">>
                \o Join([i \in 1..Len(keys) |-> <<Quote(keys[i])>>], ",")
                \o <<")", "VALUES", "(">> \o Placeholders(Len(keys)) \o <<")">>,
      params |-> ObjectValues(b._data)]

\* InsertBuilder.buildQuery()
InsertBuilder_buildQuery(b) ==
  LET keys == ObjectKeys(b._data)
      values == ObjectValues(b._data)
      placeholders == Placeholders(Len(keys))
      columnList == Join([i \in 1..Len(keys) |-> <<Quote(keys[i])>>], ",")
      insertKeyword ==
        IF b._conflictResolution = "ignore" THEN <<"INSERT", "OR", "IGNORE">>
        ELSE IF b._conflictResolution = "replace" THEN <<"INSERT", "OR", "REPLACE">>
        ELSE <<"INSERT">>
  IN [sql |-> insertKeyword \o <<"INTO", Quote(tableName), "(">> \o columnList
                \o <<")", "VALUES", "(">> \o placeholders \o <<")">>,
      params |-> values]

\* toSQL() of the builder's class
toSQL(b) ==
  CASE b.kind = "select" -> QueryBuilder_buildQuery(b)
    [] b.kind = "update" -> UpdateBuilder_buildQuery(b)
    [] b.kind = "delete" -> DeleteBuilder_buildQuery(b)
    [] b.kind = "insert" -> InsertBuilder_buildQuery(b)


---------------------------------------------------------------------------
(* The embedded engine (bun:sqlite) the builders hand their statements to: *)
(* one table, its rows in rowid order.  A statement is evaluated from its  *)
(* tokens and its bound parameters.                                        *)

\* the columns of the table; the first is its INTEGER PRIMARY KEY
tableColumns == <<"id", "status", "role">>

primaryKey == "id"

\* the entry of a stored row that holds its rowid: the INTEGER PRIMARY KEY
\* column is the alias of the rowid; a table declared with a TEXT PRIMARY
\* KEY or with no primary key has no such column and keeps the rowid hidden
rowid == "id"

\* the text values of the model in the order of the BINARY collation
collation ==
  <<"active", "admin", "archived", "guest", "inactive", "nobody", "user">>

\* the storage classes in their sort order: NULL, INTEGER, TEXT
ClassOf(v) == CASE v = Null -> 0 [] v.t = "number" -> 1 [] v.t = "scalar" -> 2

RankOf(v) ==
  CASE v.t = "number" -> v.n
    [] v.t = "scalar" -> CHOOSE i \in 1..Len(collation) : collation[i] = v.s
    [] OTHER -> 0

\* a < b in the engine's ordering of values
Less(a, b) ==
  \/ ClassOf(a) < ClassOf(b)
  \/ ClassOf(a) = ClassOf(b) /\ RankOf(a) < RankOf(b)

\* three-valued logic: "T", "F", "N" (NULL); "E" is a statement the engine
\* rejects
Not3(x) == CASE x = "T" -> "F" [] x = "F" -> "T" [] OTHER -> x

And3(x, y) ==
  CASE x = "E" \/ y = "E" -> "E"
    [] x = "F" \/ y = "F" -> "F"
    [] x = "N" \/ y = "N" -> "N"
    [] OTHER -> "T"

Or3(x, y) ==
  CASE x = "E" \/ y = "E" -> "E"
    [] x = "T" \/ y = "T" -> "T"
    [] x = "N" \/ y = "N" -> "N"
    [] OTHER -> "F"

Bool3(p) == IF p THEN "T" ELSE "F"

comparisons == {"=", "!=", ">", ">=", "<", "<=", "LIKE"}

\* `a <op> b`; LIKE with a pattern that has no wildcard
Compare3(op, a, b) ==
  IF a = Null \/ b = Null THEN "N"
  ELSE CASE op = "=" -> Bool3(a = b)
         [] op = "!=" -> Bool3(a # b)
         [] op = ">" -> Bool3(Less(b, a))
         [] op = ">=" -> Bool3(~Less(a, b))
         [] op = "<" -> Bool3(Less(a, b))
         [] op = "<=" -> Bool3(~Less(b, a))
         [] op = "LIKE" -> Bool3(a = b)

\* `x IN (vals)`
In3(x, vals) ==
  CASE vals = <<>> -> "F"
    [] x = Null -> "N"
    [] \E i \in 1..Len(vals) : vals[i] = x -> "T"
    [] \E i \in 1..Len(vals) : vals[i] = Null -> "N"
    [] OTHER -> "F"

\* the tokens of a statement, each placeholder with the parameter bound to it
BindTokens(sql, params) ==
  [i \in 1..Len(sql) |->
     [lit |-> sql[i],
      val |-> IF sql[i] = "?"
              THEN LET k == Cardinality({j \in 1..i : sql[j] = "?"})
                   IN IF k <= Len(params) THEN params[k] ELSE Undefined
              ELSE Undefined]]

\* does the statement have as many placeholders as parameters
BindsAll(sql, params) ==
  Cardinality({j \in 1..Len(sql) : sql[j] = "?"}) = Len(params)

\* the comparison at the head of the tokens: col op ?, col [NOT] LIKE ?,
\* col [NOT] IN (?, ...), col BETWEEN ? AND ?, col IS [NOT] NULL.  Its
\* length in tokens and its value on the row; "E" when there is none.
Atom(toks, row) ==
  LET n == Len(toks)
      Lit(i) == IF i <= n THEN toks[i].lit ELSE ""
      named == {c \in {tableColumns[i] : i \in 1..Len(tableColumns)} : Quote(c) = Lit(1)}
      x == GetKey(row, CHOOSE c \in named : TRUE)
      \* the parenthesis that closes the list whose items start at i
      closes(i) == {j \in i..n : Lit(j) = ")" /\ \A k \in i..(j - 1) : Lit(k) # ")"}
      IsList(i) ==
        \E close \in closes(i) :
          /\ \A k \in i..(close - 1) : Lit(k) = IF (k - i) % 2 = 0 THEN "?" ELSE ","
          /\ (close - i = 0 \/ (close - i) % 2 = 1)
      ListValues(i) ==
        The({[m \in 1..((close - i + 1) \div 2) |-> toks[i + 2 * (m - 1)].val] :
               close \in closes(i)})
  IN CASE named = {} -> [len |-> 0, val |-> "E"]
       [] Lit(2) \in comparisons /\ Lit(3) = "?" ->
            [len |-> 3, val |-> Compare3(Lit(2), x, toks[3].val)]
       [] Lit(2) = "NOT" /\ Lit(3) = "LIKE" /\ Lit(4) = "?" ->
            [len |-> 4, val |-> Not3(Compare3("LIKE", x, toks[4].val))]
       [] Lit(2) = "IS" /\ Lit(3) = "NULL" ->
            [len |-> 3, val |-> Bool3(x = Null)]
       [] Lit(2) = "IS" /\ Lit(3) = "NOT" /\ Lit(4) = "NULL" ->
            [len |-> 4, val |-> Bool3(x # Null)]
       [] Lit(2) = "BETWEEN" /\ Lit(3) = "?" /\ Lit(4) = "AND" /\ Lit(5) = "?" ->
            [len |-> 5, val |-> And3(Compare3(">=", x, toks[3].val),
                                     Compare3("<=", x, toks[5].val))]
       [] Lit(2) = "IN" /\ Lit(3) = "(" /\ IsList(4) ->
            [len |-> The(closes(4)), val |-> In3(x, ListValues(4))]
       [] Lit(2) = "NOT" /\ Lit(3) = "IN" /\ Lit(4) = "(" /\ IsList(5) ->
            [len |-> The(closes(5)), val |-> Not3(In3(x, ListValues(5)))]
       [] OTHER -> [len |-> 0, val |-> "E"]

RECURSIVE EvalConj(_, _)
\* a conjunction of comparisons on one row
EvalConj(toks, row) ==
  The({IF atom.val = "E" THEN "E"
       ELSE IF atom.len = Len(toks) THEN atom.val
       ELSE IF toks[atom.len + 1].lit = "AND"
       THEN The({And3(atom.val, EvalConj(rest, row)) :
                   rest \in {SubSeq(toks, atom.len + 2, Len(toks))}})
       ELSE "E" :
         atom \in {Atom(toks, row)}})

\* a conjunction without the parentheses around it
Unwrapped(d) ==
  IF Len(d) >= 2 /\ d[1].lit = "(" /\ d[Len(d)].lit = ")"
  THEN SubSeq(d, 2, Len(d) - 1) ELSE d

RECURSIVE EvalWhere(_, _)
\* a WHERE expression on one row: conjunctions, each in parentheses or
\* bare, joined by OR
EvalWhere(toks, row) ==
  LET ors == {i \in 1..Len(toks) : toks[i].lit = "OR"}
      first == CHOOSE i \in ors : \A j \in ors : i <= j
  IN IF ors = {}
     THEN The({EvalConj(conj, row) : conj \in {Unwrapped(toks)}})
     ELSE The({Or3(EvalConj(conj, row), EvalWhere(rest, row)) :
                 conj \in {Unwrapped(SubSeq(toks, 1, first - 1))},
                 rest \in {SubSeq(toks, first + 1, Len(toks))}})

\* the state of a database: the rows of the table in rowid order, and what
\* changes() and last_insert_rowid() report
NewDatabase(rows) ==
  [rows |-> rows, changes |-> 0, lastRowid |-> 0, primaryKey |-> primaryKey]

Row(id, status, role) ==
  <<Entry("id", Num(id)), Entry("status", status), Entry("role", role)>>

\* a row of NULLs, to evaluate the syntax of an expression on
nullRow == [i \in 1..Len(tableColumns) |-> Entry(tableColumns[i], Null)]

engineKeywords == {"SET", "WHERE", "GROUP", "HAVING", "ORDER", "LIMIT", "OFFSET"}

numerals == 0..9

\* the number a numeral token denotes, -1 for another token
NumberOf(tok) ==
  IF \E k \in numerals : ToString(k) = tok
  THEN CHOOSE k \in numerals : ToString(k) = tok
  ELSE -1

\* the clause keyword kw opens: its tokens up to the next clause keyword
ClauseAt(toks, kw) ==
  LET n == Len(toks)
      at == {i \in 1..n : toks[i].lit = kw}
  IN IF at = {} THEN [present |-> FALSE, body |-> <<>>]
     ELSE LET w == CHOOSE i \in at : \A j \in at : i <= j
              ends == {i \in (w + 1)..n : toks[i].lit \in engineKeywords}
              e == IF ends = {} THEN n + 1
                   ELSE CHOOSE i \in ends : \A j \in ends : i <= j
          IN [present |-> TRUE, body |-> SubSeq(toks, w + 1, e - 1)]

\* the sort keys of an ORDER BY clause: `"col" ASC|DESC` joined by commas
OrderKeys(body) ==
  [m \in 1..((Len(body) + 1) \div 3) |->
     [column |-> body[3 * m - 2].lit, desc |-> body[3 * m - 1].lit = "DESC"]]

IsColumnToken(lit) == \E i \in 1..Len(tableColumns) : Quote(tableColumns[i]) = lit

ColumnOfToken(lit) ==
  tableColumns[CHOOSE i \in 1..Len(tableColumns) : Quote(tableColumns[i]) = lit]

\* is the tail of a statement from its WHERE clause on well formed
TailAccepted(toks) ==
  \E where \in {ClauseAt(toks, "WHERE")}, order \in {ClauseAt(toks, "ORDER")},
     limit \in {ClauseAt(toks, "LIMIT")}, offset \in {ClauseAt(toks, "OFFSET")},
     group \in {ClauseAt(toks, "GROUP")} :
    /\ where.present => EvalWhere(where.body, nullRow) # "E"
    /\ group.present =>
         /\ Len(group.body) % 2 = 0
         /\ group.body[1].lit = "BY"
         /\ \A m \in 1..(Len(group.body) \div 2) : IsColumnToken(group.body[2 * m].lit)
         /\ \A m \in 2..(Len(group.body) \div 2) : group.body[2 * m - 1].lit = ","
    /\ order.present =>
         /\ Len(order.body) % 3 = 0
         /\ order.body[1].lit = "BY"
         /\ \A m \in 1..(Len(order.body) \div 3) : IsColumnToken(order.body[3 * m - 1].lit)
         /\ \A m \in 1..(Len(order.body) \div 3) : order.body[3 * m].lit \in {"ASC", "DESC"}
         /\ \A m \in 2..(Len(order.body) \div 3) : order.body[3 * m - 2].lit = ","
    /\ limit.present => Len(limit.body) = 1 /\ NumberOf(limit.body[1].lit) >= 0
    /\ offset.present =>
         limit.present /\ Len(offset.body) = 1 /\ NumberOf(offset.body[1].lit) >= 0

\* row a sorts before row b under the keys
Before(a, b, keys) ==
  \E m \in 1..Len(keys) :
    LET Val(r, k) == GetKey(r, ColumnOfToken(keys[k].column))
    IN /\ \A k \in 1..(m - 1) : Val(a, k) = Val(b, k)
       /\ IF keys[m].desc THEN Less(Val(b, m), Val(a, m))
                          ELSE Less(Val(a, m), Val(b, m))

\* the indexes of the rows a statement's WHERE, ORDER BY, LIMIT and OFFSET
\* select, in the order of the result; ties keep the rowid order
Selected(toks, rows) ==
  LET Sorted(match, keys) ==
        [p \in 1..Cardinality(match) |->
           CHOOSE i \in match :
             p = 1 + Cardinality({j \in match :
                       \/ Before(rows[j], rows[i], keys)
                       \/ ~Before(rows[i], rows[j], keys) /\ j < i})]
      Window(sorted, skip, count) ==
        SubSeq(sorted, skip + 1,
               IF count >= 0 /\ skip + count < Len(sorted) THEN skip + count
               ELSE Len(sorted))
      Of(where, order, limit, offset) ==
        The({Window(sorted,
                    IF offset.present THEN NumberOf(offset.body[1].lit) ELSE 0,
                    IF limit.present THEN NumberOf(limit.body[1].lit) ELSE -1) :
               sorted \in {The({Sorted(match, keys) :
                  match \in {{i \in 1..Len(rows) :
                               ~where.present \/ EvalWhere(where.body, rows[i]) = "T"}},
                  keys \in {IF order.present THEN OrderKeys(Tail(order.body))
                            ELSE <<>>}})}})
  IN The({Of(where, order, limit, offset) :
            where \in {ClauseAt(toks, "WHERE")}, order \in {ClauseAt(toks, "ORDER")},
            limit \in {ClauseAt(toks, "LIMIT")}, offset \in {ClauseAt(toks, "OFFSET")}})

\* the position of the first token tok of a statement, 0 when there is none
TokenAt(sql, tok) ==
  IF \E i \in 1..Len(sql) : sql[i] = tok
  THEN CHOOSE i \in 1..Len(sql) : sql[i] = tok /\ \A j \in 1..(i - 1) : sql[j] # tok
  ELSE 0

\* the items of a comma-separated list of tokens, <<>> when it is not one
ListItems(list) ==
  IF /\ Len(list) % 2 = 1
     /\ \A k \in 1..Len(list) : (k % 2 = 0) <=> (list[k] = ",")
  THEN [m \in 1..((Len(list) + 1) \div 2) |-> list[2 * m - 1]]
  ELSE <<>>

\* the column a select-list item names, bare or quoted
IsColumnName(tok) ==
  \E i \in 1..Len(tableColumns) : tok \in {tableColumns[i], Quote(tableColumns[i])}

ColumnNamed(tok) ==
  tableColumns[CHOOSE i \in 1..Len(tableColumns) :
                 tok \in {tableColumns[i], Quote(tableColumns[i])}]

\* the parenthesised list that opens at position p: its tokens
ListAt(sql, p) ==
  LET closes == {j \in (p + 1)..Len(sql) : sql[j] = ")"}
      close == CHOOSE j \in closes : \A k \in closes : j <= k
  IN IF p >= 1 /\ p <= Len(sql) /\ sql[p] = "(" /\ closes # {}
     THEN [ok |-> TRUE, items |-> ListItems(SubSeq(sql, p + 1, close - 1)), end |-> close]
     ELSE [ok |-> FALSE, items |-> <<>>, end |-> 0]

\* the functions of AggregateFunction
aggregateFunctions == {"SUM", "AVG", "MIN", "MAX"}

\* the sum of the numbers of a sequence of values; a text counts 0
RECURSIVE SumOf(_)
SumOf(vals) ==
  IF vals = <<>> THEN 0
  ELSE (IF vals[1].t = "number" THEN vals[1].n ELSE 0) + SumOf(Tail(vals))

\* the number a / b: an integer, or a fraction in lowest terms
Fraction(a, b) ==
  LET g == CHOOSE k \in 1..b : /\ a % k = 0 /\ b % k = 0
                               /\ \A l \in (k + 1)..b : a % l # 0 \/ b % l # 0
  IN IF b \div g = 1 THEN Num(a \div g)
     ELSE [t |-> "number", num |-> a \div g, den |-> b \div g]

\* an aggregate function on the values of a group: NULLs are left out, and
\* no value gives NULL
AggregateOf(fn, vals) ==
  LET given == SelectSeq(vals, LAMBDA v : v # Null)
      least == CHOOSE i \in 1..Len(given) :
                 \A j \in 1..Len(given) : ~Less(given[j], given[i])
      most == CHOOSE i \in 1..Len(given) :
                \A j \in 1..Len(given) : ~Less(given[i], given[j])
  IN CASE given = <<>> -> Null
       [] fn = "SUM" -> Num(SumOf(given))
       [] fn = "AVG" -> Fraction(SumOf(given), Len(given))
       [] fn = "MIN" -> given[least]
       [] fn = "MAX" -> given[most]

\* row a comes before row b in the order of the columns cols
KeyBefore(a, b, cols) ==
  \E m \in 1..Len(cols) :
    /\ \A k \in 1..(m - 1) : GetKey(a, cols[k]) = GetKey(b, cols[k])
    /\ Less(GetKey(a, cols[m]), GetKey(b, cols[m]))

\* SELECT fn("col") as result ... [WHERE ...] [GROUP BY ...]: one row for
\* every group of the rows the WHERE keeps, the groups in the order of their
\* keys; without GROUP BY the one group of all of them, also when it is empty
Aggregated(d, sql, toks) ==
  LET rows == d.rows
      Key(r, cols) == [k \in 1..Len(cols) |-> GetKey(r, cols[k])]
      Of(match, cols) ==
        LET heads == {i \in match : \A j \in match :
                        Key(rows[j], cols) = Key(rows[i], cols) => i <= j}
            ordered == [p \in 1..Cardinality(heads) |->
                          CHOOSE i \in heads :
                            p = 1 + Cardinality({j \in heads :
                                      KeyBefore(rows[j], rows[i], cols)})]
            Group(i) == SelectSeq([k \in 1..Len(rows) |-> k],
                                  LAMBDA k : k \in match
                                             /\ Key(rows[k], cols) = Key(rows[i], cols))
            Result(ix) ==
              Obj(<<Entry("result",
                          AggregateOf(sql[2], [k \in 1..Len(ix) |->
                                                 GetKey(rows[ix[k]],
                                                        ColumnOfToken(sql[4]))]))>>)
        IN IF cols = <<>>
           THEN <<Result(SelectSeq([k \in 1..Len(rows) |-> k], LAMBDA k : k \in match))>>
           ELSE [p \in 1..Len(ordered) |-> Result(Group(ordered[p]))]
  IN The({[ok |-> TRUE, db |-> d, rows |-> Of(match, cols)] :
            match \in {The({{i \in 1..Len(rows) :
                               ~where.present \/ EvalWhere(where.body, rows[i]) = "T"} :
                             where \in {ClauseAt(toks, "WHERE")}})},
            cols \in {The({IF group.present
                           THEN [m \in 1..(Len(group.body) \div 2) |->
                                   ColumnOfToken(group.body[2 * m].lit)]
                           ELSE <<>> :
                             group \in {ClauseAt(toks, "GROUP")}})}})

\* the assignments of INSERT ... ON CONFLICT ("id") DO UPDATE SET
\* "a" = excluded."b", ...: the tokens after SET, <<>> without the clause
UpsertAssignments(sql) ==
  LET p == TokenAt(sql, "CONFLICT")
  IN IF p = 0 \/ p + 6 > Len(sql) THEN <<>>
     ELSE SubSeq(sql, p + 7, Len(sql))

\* the columns the assignments of an upsert set, and the columns of the
\* row that was to be inserted they take the value of
UpsertColumns(set) ==
  [m \in 1..((Len(set) + 1) \div 4) |->
     [column |-> ColumnOfToken(set[4 * m - 3]),
      from |-> CHOOSE c \in {tableColumns[i] : i \in 1..Len(tableColumns)} :
                 set[4 * m - 1] = "excluded." \o Quote(c)]]

\* SET "col" = "col" + ?
IsIncrement(set) ==
  /\ Len(set) = 5
  /\ IsColumnToken(set[1].lit) /\ set[2].lit = "=" /\ set[3].lit = set[1].lit
  /\ set[4].lit = "+" /\ set[5].lit = "?"

RECURSIVE IncrementKeys(_, _, _)
\* SET "id" = "id" + ? on the rows sel, written one after the other: the
\* keys after it, and whether no row came to have the key of another row
IncrementKeys(ids, sel, amount) ==
  IF sel = <<>> THEN [ok |-> TRUE, ids |-> ids]
  ELSE IF \E j \in 1..Len(ids) : j # sel[1] /\ ids[j] = ids[sel[1]] + amount
  THEN [ok |-> FALSE, ids |-> ids]
  ELSE IncrementKeys([ids EXCEPT ![sel[1]] = @ + amount], Tail(sel), amount)

RECURSIVE Prepare(_)
\* db.prepare(sql): does the engine accept the text.  The statements are
\* the builders' without DISTINCT, GROUP BY and HAVING; a bounded or
\* ordered UPDATE or DELETE is accepted, ORDER BY only with a LIMIT.
Prepare(sql) ==
  LET n == Len(sql)
      from == TokenAt(sql, "FROM")
      TailFrom(p) == p = n \/ (p < n /\ sql[p + 1] \in engineKeywords \ {"SET"})
      Bounded(toks) ==
        ClauseAt(toks, "ORDER").present => ClauseAt(toks, "LIMIT").present
      IsColumnList(list) ==
        \E items \in {ListItems(list)} :
          items # <<>> /\ \A m \in 1..Len(items) : IsColumnName(items[m])
      IsAssignments(set) ==
        /\ Len(set) % 4 = 3
        /\ \A m \in 1..((Len(set) + 1) \div 4) :
             /\ IsColumnToken(set[4 * m - 3].lit)
             /\ set[4 * m - 2].lit = "=" /\ set[4 * m - 1].lit = "?"
        /\ \A k \in 1..Len(set) : k % 4 = 0 => set[k].lit = ","
  IN \E toks \in {BindTokens(sql, <<>>)} :
       CASE n >= 6 /\ sql[1] = "SELECT" /\ sql[2] = "EXISTS" ->
              /\ sql[3] = "(" /\ sql[n - 2] = ")"
              /\ \E inner \in {SubSeq(sql, 4, n - 3)} : Prepare(inner)
         [] n >= 2 /\ sql[1] = "SELECT"
              /\ sql[2] \in {"changes()", "last_insert_rowid()"} -> n = 4
         [] n >= 4 /\ sql[1] = "SELECT" ->
              /\ from > 2 /\ from < n
              /\ \E list \in {SubSeq(sql, 2, from - 1)} :
                   \/ list \in {<<"*">>, <<"1">>, <<"COUNT(*)", "as", "count">>}
                   \/ /\ Len(list) = 6 /\ list[1] \in aggregateFunctions
                      /\ list[2] = "(" /\ IsColumnToken(list[3])
                      /\ SubSeq(list, 4, 6) = <<")", "as", "result">>
                   \/ IsColumnList(list)
              /\ sql[from + 1] = Quote(tableName)
              /\ TailFrom(from + 1)
              /\ TailAccepted(toks)
         [] n >= 6 /\ sql[1] = "UPDATE" ->
              /\ sql[2] = Quote(tableName) /\ sql[3] = "SET"
              /\ \E set \in {ClauseAt(toks, "SET").body} :
                   IsAssignments(set) \/ IsIncrement(set)
              /\ TailAccepted(toks) /\ Bounded(toks)
         [] n >= 3 /\ sql[1] = "DELETE" ->
              /\ sql[2] = "FROM" /\ sql[3] = Quote(tableName)
              /\ TailFrom(3)
              /\ TailAccepted(toks) /\ Bounded(toks)
         [] n >= 3 /\ sql[1] = "INSERT" ->
              \E into \in {TokenAt(sql, "INTO")} :
              \E cols \in {ListAt(sql, into + 2)} :
              \E vals \in {ListAt(sql, cols.end + 2)} :
                /\ into = 2 \/ (into = 4 /\ sql[2] = "OR" /\ sql[3] \in {"IGNORE", "REPLACE"})
                /\ into + 1 <= n /\ sql[into + 1] = Quote(tableName)
                /\ cols.ok /\ cols.items # <<>>
                /\ \A m \in 1..Len(cols.items) : IsColumnToken(cols.items[m])
                /\ cols.end + 1 <= n /\ sql[cols.end + 1] = "VALUES"
                /\ vals.ok /\ Len(vals.items) = Len(cols.items)
                /\ \A m \in 1..Len(vals.items) : vals.items[m] = "?"
                /\ \/ vals.end = n
                   \/ /\ into = 2 /\ vals.end + 8 < n
                      /\ SubSeq(sql, vals.end + 1, vals.end + 8) =
                           <<"ON", "CONFLICT", "(", Quote(rowid), ")", "DO", "UPDATE", "SET">>
                      /\ \E set \in {SubSeq(sql, vals.end + 9, n)} :
                           /\ Len(set) % 4 = 3
                           /\ \A m \in 1..((Len(set) + 1) \div 4) :
                                /\ IsColumnToken(set[4 * m - 3])
                                /\ set[4 * m - 2] = "="
                                /\ \E c \in {tableColumns[i] : i \in 1..Len(tableColumns)} :
                                     set[4 * m - 1] = "excluded." \o Quote(c)
                           /\ \A k \in 1..Len(set) : k % 4 = 0 => set[k] = ","
         [] OTHER -> FALSE

RECURSIVE Execute(_, _, _)
\* stmt.all(...params) / stmt.run(...params) of a statement the engine
\* accepted: did it run, the rows it returns, the database it leaves
Execute(d, sql, params) ==
  LET n == Len(sql)
      rows == d.rows
      Failed == [ok |-> FALSE, rows |-> <<>>, db |-> d]
      Returns(rs) == [ok |-> TRUE, rows |-> rs, db |-> d]
      Changes(rs, k, id) ==
        [ok |-> TRUE, rows |-> <<>>,
         db |-> [d EXCEPT !.rows = rs, !.changes = k, !.lastRowid = id]]
      Project(r, list, items) ==
        CASE list = <<"*">> ->
               IF d.primaryKey = rowid THEN Obj(r)
               ELSE Obj(SelectSeq(r, LAMBDA e : e.k # rowid))
          [] list = <<"1">> -> Obj(<<Entry("1", Num(1))>>)
          [] OTHER -> Obj([m \in 1..Len(items) |->
                             Entry(ColumnNamed(items[m]), GetKey(r, ColumnNamed(items[m])))])
      Assigned(r, c, set) ==
        LET at == {m \in 1..((Len(set) + 1) \div 4) :
                     ColumnOfToken(set[4 * m - 3].lit) = c}
        IN IF at = {} THEN GetKey(r, c)
           ELSE set[4 * (CHOOSE m \in at : \A k \in at : k <= m) - 1].val
      Updated(hit, set) ==
        [i \in 1..Len(rows) |->
           IF i \in hit
           THEN [k \in 1..Len(tableColumns) |->
                   Entry(tableColumns[k], Assigned(rows[i], tableColumns[k], set))]
           ELSE rows[i]]
      \* SET "col" = "col" + ?: a number is added to, NULL stays NULL; the
      \* statement fails when a row comes to have the key of another row,
      \* and the rows stay in the order of their keys
      Incremented(sel, set) ==
        LET c == ColumnOfToken(set[1].lit)
            amount == set[5].val.n
            hit == {sel[i] : i \in 1..Len(sel)}
            Plus(v) == IF v.t = "number" THEN Num(v.n + amount) ELSE v
            keys == IncrementKeys([i \in 1..Len(rows) |-> GetKey(rows[i], rowid).n],
                                  sel, amount)
            written == [i \in 1..Len(rows) |->
                          IF i \in hit THEN SetKey(rows[i], c, Plus(GetKey(rows[i], c)))
                          ELSE rows[i]]
            sorted == [p \in 1..Len(rows) |->
                         written[CHOOSE i \in 1..Len(rows) :
                                   p = 1 + Cardinality({j \in 1..Len(rows) :
                                             GetKey(written[j], rowid).n
                                               < GetKey(written[i], rowid).n})]]
        IN IF c = rowid /\ ~keys.ok THEN Failed
           ELSE Changes(sorted, Len(sel), d.lastRowid)
      Kept(keep) ==
        [p \in 1..Cardinality(keep) |->
           rows[CHOOSE i \in keep : Cardinality({j \in keep : j < i}) = p - 1]]
      Inserted(into, cols) ==
        LET Given(c) ==
              LET at == {m \in 1..Len(cols) : cols[m] = Quote(c)}
              IN IF at = {} THEN Null
                 ELSE params[CHOOSE m \in at : \A k \in at : k <= m]
            key == d.primaryKey
            ids == {GetKey(rows[i], rowid).n : i \in 1..Len(rows)}
            next == IF ids = {} THEN 1
                    ELSE 1 + CHOOSE m \in ids : \A k \in ids : k <= m
            \* the rows that have the key of the new row
            Clash(id) ==
              {i \in 1..Len(rows) :
                 IF key = rowid THEN GetKey(rows[i], rowid).n = id
                 ELSE key # "" /\ Given(key) # Null /\ GetKey(rows[i], key) = Given(key)}
            With(id, clash) ==
              LET kept == SelectSeq([i \in 1..Len(rows) |-> i], LAMBDA i : i \notin clash)
                  Rows(ix) == [k \in 1..Len(ix) |-> rows[ix[k]]]
              IN Rows(SelectSeq(kept, LAMBDA i : GetKey(rows[i], rowid).n < id))
                   \o <<[k \in 1..Len(tableColumns) |->
                           Entry(tableColumns[k],
                                 IF tableColumns[k] = rowid THEN Num(id)
                                 ELSE Given(tableColumns[k]))]>>
                   \o Rows(SelectSeq(kept, LAMBDA i : GetKey(rows[i], rowid).n > id))
            \* the rows with the key of the new row, written by DO UPDATE
            Excluded(clash, set) ==
              [i \in 1..Len(rows) |->
                 IF i \notin clash THEN rows[i]
                 ELSE [k \in 1..Len(tableColumns) |->
                         LET at == {m \in 1..Len(set) : set[m].column = tableColumns[k]}
                         IN Entry(tableColumns[k],
                                  IF at = {} THEN GetKey(rows[i], tableColumns[k])
                                  ELSE Given(set[CHOOSE m \in at : \A l \in at : l <= m].from))]]
            upsert == UpsertAssignments(sql)
            Of(id, clash) ==
              CASE clash = {} -> Changes(With(id, clash), 1, id)
                [] into = 2 /\ upsert # <<>> ->
                     \* the row is updated; last_insert_rowid() is as it was
                     Changes(Excluded(clash, UpsertColumns(upsert)), 1, d.lastRowid)
                [] into = 2 /\ upsert = <<>> -> Failed
                [] sql[3] = "IGNORE" -> Changes(rows, 0, d.lastRowid)
                [] sql[3] = "REPLACE" -> Changes(With(id, clash), 1, id)
        IN The({The({Of(id, clash) : clash \in {Clash(id)}}) :
                  id \in {IF key = rowid /\ Given(rowid) # Null
                          THEN Given(rowid).n ELSE next}})
      Of(toks, sel) ==
        CASE sql[1] = "SELECT" /\ sql[2] = "COUNT(*)" ->
               Returns(<<Obj(<<Entry("count", Num(Len(sel)))>>)>>)
          [] sql[1] = "SELECT" ->
               The({Returns([i \in 1..Len(sel) |->
                               Project(rows[sel[i]], list, ListItems(list))]) :
                      list \in {SubSeq(sql, 2, TokenAt(sql, "FROM") - 1)}})
          [] sql[1] = "UPDATE" ->
               The({IF IsIncrement(set) THEN Incremented(sel, set)
                    ELSE Changes(Updated({sel[i] : i \in 1..Len(sel)}, set), Len(sel),
                                 d.lastRowid) :
                      set \in {ClauseAt(toks, "SET").body}})
          [] sql[1] = "DELETE" ->
               The({Changes(Kept(keep), Len(sel), d.lastRowid) :
                      keep \in {{i \in 1..Len(rows) :
                                   \A k \in 1..Len(sel) : sel[k] # i}}})
  IN CASE ~BindsAll(sql, params) -> Failed
       [] sql[1] = "SELECT" /\ sql[2] = "EXISTS" ->
            The({Returns(<<Obj(<<Entry("exists_result",
                                       Num(IF inner.rows # <<>> THEN 1 ELSE 0))>>)>>) :
                   inner \in {Execute(d, text, params) :
                                text \in {SubSeq(sql, 4, n - 3)}}})
       [] sql[1] = "SELECT" /\ sql[2] = "changes()" ->
            Returns(<<Obj(<<Entry("count", Num(d.changes))>>)>>)
       [] sql[1] = "SELECT" /\ sql[2] = "last_insert_rowid()" ->
            Returns(<<Obj(<<Entry("id", Num(d.lastRowid))>>)>>)
       [] sql[1] = "INSERT" ->
            The({Inserted(into, ListAt(sql, into + 2).items) :
                   into \in {TokenAt(sql, "INTO")}})
       [] sql[1] = "SELECT" /\ sql[2] \in aggregateFunctions ->
            The({Aggregated(d, sql, toks) : toks \in {BindTokens(sql, params)}})
       [] OTHER ->
            The({The({Of(toks, sel) : sel \in {Selected(toks, rows)}}) :
                   toks \in {BindTokens(sql, params)}})

---------------------------------------------------------------------------
(* The calls on the engine the builders make *)

\* the call threw
Thrown == [t |-> "throw"]

Statement(sql, params) == [sql |-> sql, params |-> params]

\* getStatement(sql) when cached, db.prepare(sql) or db.query(sql) otherwise,
\* and then the statement's all(), get() or run() with the parameters
RunStatement(d, cache, q, cached) ==
  IF (cached /\ q.sql \in cache) \/ Prepare(q.sql)
  THEN The({[ok |-> r.ok, rows |-> r.rows, db |-> r.db,
             cache |-> IF cached THEN cache \cup {q.sql} ELSE cache] :
              r \in {Execute(d, q.sql, q.params)}})
  ELSE [ok |-> FALSE, rows |-> <<>>, db |-> d, cache |-> cache]

changesSql == <<"SELECT", "changes()", "as", "count">>

lastIdSql == <<"SELECT", "last_insert_rowid()", "as", "id">>

\* the rows of the table when the builders are created
initialRows ==
  <<Row(1, Scalar("active"), Scalar("admin")),
    Row(2, Scalar("active"), Scalar("guest")),
    Row(3, Scalar("archived"), Null)>>

\* a database and an empty statement cache, before any terminal call
InitWorld ==
  /\ db = NewDatabase(initialRows)
  /\ statementCache = {}
  /\ executed = <<>>
  /\ returned = Undefined
  /\ terminals = 0

---------------------------------------------------------------------------
(* The inputs of the calls *)

\* an operator bag, its tags in the order they are written
Bag(ents) == Obj(ents)

\* a one-column condition mapping
One(col, v) == Obj(<<Entry(col, v)>>)

columns == {"status", "role"}

scalars == {Scalar("active"), Scalar("admin"), Null}

gteLt == Bag(<<Entry("$gte", Scalar("10")), Entry("$lt", Scalar("20"))>>)

inList == Bag(<<Entry("$in", Arr(<<Scalar("admin"), Scalar("guest")>>))>>)

eqUndefined == Bag(<<Entry("$eq", Undefined)>>)

\* the condition mappings where(...), orWhere(...) and having(...) are given
whereInputs ==
  { Obj(<<>>),
    One("status", Scalar("active")),
    One("status", gteLt),
    One("role", eqUndefined),
    Obj(<<Entry("status", Null), Entry("role", inList)>>) }

orWhereInputs ==
  { Obj(<<>>),
    One("role", Scalar("admin")),
    Obj(<<Entry("role", inList), Entry("status", Scalar("active"))>>) }

havingInputs ==
  { One("status", gteLt), One("role", Scalar("admin")) }

\* the (column, operator, value) triples where(...) is given; "~" is no
\* ComparisonOperator
whereTriples ==
  { <<Scalar("status"), Scalar("="), Scalar("active")>>,
    <<Scalar("status"), Scalar("="), Null>>,
    <<Scalar("status"), Scalar(">"), Scalar("active")>>,
    <<Scalar("status"), Scalar("~"), Null>> }

\* the (column, operator, value) triples orWhere(...) is given
orWhereTriples ==
  { <<Scalar("status"), Scalar("="), Null>>,
    <<Scalar("role"), Scalar("<="), Scalar("admin")>> }

\* the SET data an UpdateBuilder is constructed with
updateData ==
  { <<Entry("role", Scalar("guest")), Entry("status", Scalar("archived"))>> }

\* the most OR branches a builder is given
MaxOr == 2

---------------------------------------------------------------------------
(* The calls, as actions on the one builder *)

Call(op, a, o, v) == [op |-> op, a |-> a, o |-> o, v |-> v]

\* where(conditions) and where(column, operator, value)
Where(a, o, v) ==
  /\ builder.kind = "select" => o = Undefined /\ v = Undefined
  /\ builder' = IF builder.kind = "select"
                THEN QueryBuilder_where(builder, a)
                ELSE Builder_where(builder, a, o, v)
  /\ lastCall' = Call("where", a, o, v)
  /\ UNCHANGED <<input, output, world>>

\* orWhere(conditions) and orWhere(column, operator, value)
OrWhere(a, o, v) ==
  /\ Len(builder._orConditions) < MaxOr
  /\ builder.kind = "select" => o = Undefined /\ v = Undefined
  /\ builder' = IF builder.kind = "select"
                THEN QueryBuilder_orWhere(builder, a)
                ELSE Builder_orWhere(builder, a, o, v)
  /\ lastCall' = Call("orWhere", a, o, v)
  /\ UNCHANGED <<input, output, world>>

\* having(conditions), of QueryBuilder only
Having(a) ==
  /\ builder.kind = "select"
  /\ builder' = QueryBuilder_having(builder, a)
  /\ lastCall' = Call("having", a, Undefined, Undefined)
  /\ UNCHANGED <<input, output, world>>

Init ==
  /\ builder \in {NewBuilder("select", <<>>), NewBuilder("delete", <<>>)}
                   \cup {NewBuilder("update", d) : d \in updateData}
  /\ lastCall = Call("new", Undefined, Undefined, Undefined)
  /\ input = Undefined
  /\ output = Undefined
  /\ InitWorld

Next ==
  \/ \E a \in whereInputs : Where(a, Undefined, Undefined)
  \/ \E t \in whereTriples : Where(t[1], t[2], t[3])
  \/ \E a \in orWhereInputs : OrWhere(a, Undefined, Undefined)
  \/ \E t \in orWhereTriples : OrWhere(t[1], t[2], t[3])
  \/ \E a \in havingInputs : Having(a)

Spec == Init /\ [][Next]_vars


---------------------------------------------------------------------------
(* The clause calls of the builders, and the Select builder with all of    *)
(* its configuration calls.                                                *)

\* the most sort keys a builder is given
MaxOrderBy == 1

\* orderBy(column, direction)
OrderBy(column, direction) ==
  /\ Len(builder._orderBy) < MaxOrderBy
  /\ builder' = Builder_orderBy(builder, column, direction)
  /\ lastCall' = Call("orderBy", Scalar(column), Scalar(direction), Undefined)
  /\ UNCHANGED <<input, output, world>>

\* limit(count)
Limit(count) ==
  /\ builder' = Builder_limit(builder, count)
  /\ lastCall' = Call("limit", Num(count), Undefined, Undefined)
  /\ UNCHANGED <<input, output, world>>

\* offset(count), of QueryBuilder only
Offset(count) ==
  /\ builder.kind = "select"
  /\ builder' = QueryBuilder_offset(builder, count)
  /\ lastCall' = Call("offset", Num(count), Undefined, Undefined)
  /\ UNCHANGED <<input, output, world>>

\* select(...columns), of QueryBuilder only
Select(cols) ==
  /\ builder.kind = "select"
  /\ builder' = QueryBuilder_select(builder, cols)
  /\ lastCall' = Call("select", Arr(cols), Undefined, Undefined)
  /\ UNCHANGED <<input, output, world>>

\* distinct(), of QueryBuilder only
Distinct ==
  /\ builder.kind = "select"
  /\ builder' = QueryBuilder_distinct(builder)
  /\ lastCall' = Call("distinct", Undefined, Undefined, Undefined)
  /\ UNCHANGED <<input, output, world>>

\* groupBy(...columns), of QueryBuilder only
GroupBy(cols) ==
  /\ builder.kind = "select"
  /\ builder' = QueryBuilder_groupBy(builder, cols)
  /\ lastCall' = Call("groupBy", Arr(cols), Undefined, Undefined)
  /\ UNCHANGED <<input, output, world>>

\* the arguments of the Select builder's calls
selectWhereInputs == {One("status", Scalar("active")), One("role", inList)}

selectOrWhereInputs == {One("role", Scalar("admin"))}

selectHavingInputs == {One("status", gteLt)}

orderByInputs == {<<"status", "ASC">>, <<"role", "DESC">>}

limitInputs == {1, 2}

offsetInputs == {1}

selectInputs == {<<"status">>}

groupByInputs == {<<"status", "role">>}

InitSelect ==
  /\ builder = NewBuilder("select", <<>>)
  /\ lastCall = Call("new", Undefined, Undefined, Undefined)
  /\ input = Undefined
  /\ output = Undefined
  /\ InitWorld

NextSelect ==
  \/ \E a \in selectWhereInputs : Where(a, Undefined, Undefined)
  \/ \E a \in selectOrWhereInputs : OrWhere(a, Undefined, Undefined)
  \/ \E a \in selectHavingInputs : Having(a)
  \/ \E o \in orderByInputs : OrderBy(o[1], o[2])
  \/ \E n \in limitInputs : Limit(n)
  \/ \E n \in offsetInputs : Offset(n)
  \/ \E c \in selectInputs : Select(c)
  \/ Distinct
  \/ \E c \in groupByInputs : GroupBy(c)

SpecSelect == InitSelect /\ [][NextSelect]_vars

---------------------------------------------------------------------------
(* The builders with their terminal calls: a builder is configured, then   *)
(* toSQL() and the terminal calls are made on it.                          *)

\* the most toSQL() and terminal calls made on a builder
MaxTerminals == 2

\* what a toSQL() or terminal call leaves: the builder, the database and the
\* cache after its last statement, the statements it handed to the engine
\* and the value it returned
Terminal(op, a, b, s, stmts, value) ==
  /\ builder' = b
  /\ db' = s.db
  /\ statementCache' = s.cache
  /\ executed' = stmts
  /\ returned' = value
  /\ terminals' = terminals + 1
  /\ lastCall' = Call(op, a, Undefined, Undefined)
  /\ input' = builder
  /\ UNCHANGED output

\* no statement was run: the database and the cache as they are
Untouched == [ok |-> TRUE, rows |-> <<>>, db |-> db, cache |-> statementCache]

\* a mutation of ToSQL: the rendered text is put in the statement cache
ToSQLCached ==
  /\ terminals < MaxTerminals
  /\ \E q \in {toSQL(builder)} :
       Terminal("toSQL", Undefined, builder,
                [Untouched EXCEPT !.cache = statementCache \cup {q.sql}], <<>>, q)

\* toSQL() of every builder: buildQuery() and nothing else
ToSQL ==
  /\ terminals < MaxTerminals
  /\ \E q \in {toSQL(builder)} :
       Terminal("toSQL", Undefined, builder, Untouched, <<>>, q)

\* QueryBuilder.all()
All ==
  /\ builder.kind = "select"
  /\ terminals < MaxTerminals
  /\ \E q \in {QueryBuilder_buildQuery(builder)} :
     \E s \in {RunStatement(db, statementCache, q, TRUE)} :
       Terminal("all", Undefined, builder, s, <<q>>,
                IF s.ok THEN Arr(s.rows) ELSE Thrown)

\* QueryBuilder.run(): all()
Run ==
  /\ builder.kind = "select"
  /\ terminals < MaxTerminals
  /\ \E q \in {QueryBuilder_buildQuery(builder)} :
     \E s \in {RunStatement(db, statementCache, q, TRUE)} :
       Terminal("run", Undefined, builder, s, <<q>>,
                IF s.ok THEN Arr(s.rows) ELSE Thrown)

\* a mutation of First: the configured limit is kept
FirstKeepsLimit ==
  /\ builder.kind = "select"
  /\ terminals < MaxTerminals
  /\ \E q \in {QueryBuilder_buildQuery(builder)} :
     \E s \in {RunStatement(db, statementCache, q, TRUE)} :
       Terminal("first", Undefined, builder, s, <<q>>,
                IF ~s.ok THEN Thrown
                ELSE IF s.rows = <<>> THEN Null ELSE s.rows[1])

\* QueryBuilder.first(): stmt.get() is the first row of the statement's
\* result, or nothing
First ==
  /\ builder.kind = "select"
  /\ terminals < MaxTerminals
  /\ \E limited \in {[builder EXCEPT !._limit = Num(1)]} :
     \E q \in {QueryBuilder_buildQuery(limited)} :
     \E s \in {RunStatement(db, statementCache, q, TRUE)} :
       Terminal("first", Undefined, limited, s, <<q>>,
                IF ~s.ok THEN Thrown
                ELSE IF s.rows = <<>> THEN Null ELSE s.rows[1])

\* QueryBuilder.exists()
Exists ==
  /\ builder.kind = "select"
  /\ terminals < MaxTerminals
  /\ \E q \in {QueryBuilder_buildQuery(builder)} :
     \E existsSql \in {<<"SELECT", "EXISTS", "(">> \o q.sql
                         \o <<")", "as", "exists_result">>} :
     \E s \in {RunStatement(db, statementCache, Statement(existsSql, q.params), FALSE)} :
       Terminal("exists", Undefined, builder, s, <<Statement(existsSql, q.params)>>,
                IF s.ok THEN Bool(GetKey(s.rows[1].ents, "exists_result") = Num(1))
                ELSE Thrown)

\* QueryBuilder.pluck(column): all() of the one column
Pluck(column) ==
  /\ builder.kind = "select"
  /\ terminals < MaxTerminals
  /\ \E one \in {[builder EXCEPT !._select = <<column>>]} :
     \E q \in {QueryBuilder_buildQuery(one)} :
     \E s \in {RunStatement(db, statementCache, q, TRUE)} :
       Terminal("pluck", Scalar(column), one, s, <<q>>,
                IF s.ok
                THEN Arr([i \in 1..Len(s.rows) |-> GetKey(s.rows[i].ents, column)])
                ELSE Thrown)

\* QueryBuilder.count()
Count ==
  /\ builder.kind = "select"
  /\ terminals < MaxTerminals
  /\ \E where \in {buildWhereClause(builder._where)} :
     \E q \in {Statement(<<"SELECT", "COUNT(*)", "as", "count", "FROM", Quote(tableName)>>
                           \o (IF where.sql # <<>> THEN <<"WHERE">> \o where.sql
                               ELSE <<>>),
                         where.params)} :
     \E s \in {RunStatement(db, statementCache, q, FALSE)} :
       Terminal("count", Undefined, builder, s, <<q>>,
                IF s.ok THEN GetKey(s.rows[1].ents, "count") ELSE Thrown)

\* UpdateBuilder.run() and DeleteBuilder.run()
BuilderRun ==
  /\ builder.kind \in {"update", "delete"}
  /\ terminals < MaxTerminals
  /\ \E q \in {toSQL(builder)} :
     \E s \in {RunStatement(db, statementCache, q, TRUE)} :
       IF ~s.ok THEN Terminal("run", Undefined, builder, s, <<q>>, Thrown)
       ELSE \E c \in {RunStatement(s.db, s.cache, Statement(changesSql, <<>>), FALSE)} :
              Terminal("run", Undefined, builder, c,
                       <<q, Statement(changesSql, <<>>)>>,
                       GetKey(c.rows[1].ents, "count"))

\* InsertBuilder.run(), with recordExists and findById
InsertRun ==
  /\ builder.kind = "insert"
  /\ terminals < MaxTerminals
  /\ \E where \in {buildWhereClause(OwnEntries(builder._checkCondition))} :
     \E check \in {Statement(<<"SELECT", "EXISTS", "(", "SELECT", "1", "FROM",
                              Quote(tableName), "WHERE">> \o where.sql
                               \o <<")", "as", "exists_result">>, where.params)} :
     \E checked \in {builder._checkCondition # Null /\ where.sql # <<>>} :
     \E s0 \in {IF checked THEN RunStatement(db, statementCache, check, FALSE)
                ELSE Untouched} :
     \E e0 \in {IF checked THEN <<check>> ELSE <<>>} :
       IF ~s0.ok THEN Terminal("run", Undefined, builder, s0, e0, Thrown)
       ELSE IF checked /\ GetKey(s0.rows[1].ents, "exists_result") = Num(1)
       THEN Terminal("run", Undefined, builder, s0, e0, Null)
       ELSE
         \E q \in {InsertBuilder_buildQuery(builder)} :
         \E s1 \in {RunStatement(s0.db, s0.cache, q, TRUE)} :
           IF ~s1.ok THEN Terminal("run", Undefined, builder, s1, e0 \o <<q>>, Thrown)
           ELSE
             \E changes \in {Statement(changesSql, <<>>)} :
             \E s2 \in {RunStatement(s1.db, s1.cache, changes, TRUE)} :
               IF GetKey(s2.rows[1].ents, "count") = Num(0)
               THEN Terminal("run", Undefined, builder, s2, e0 \o <<q, changes>>, Null)
               ELSE
                 \E lastId \in {Statement(lastIdSql, <<>>)} :
                 \E s3 \in {RunStatement(s2.db, s2.cache, lastId, TRUE)} :
                   IF db.primaryKey = ""
                   THEN Terminal("run", Undefined, builder, s3,
                                 e0 \o <<q, changes, lastId>>, Obj(builder._data))
                   ELSE
                     \E find \in {Statement(<<"SELECT", "*", "FROM", Quote(tableName),
                                              "WHERE", Quote(db.primaryKey), "=", "?">>,
                                            <<GetKey(s3.rows[1].ents, "id")>>)} :
                     \E s4 \in {RunStatement(s3.db, s3.cache, find, TRUE)} :
                       Terminal("run", Undefined, builder, s4,
                                e0 \o <<q, changes, lastId, find>>,
                                IF s4.ok /\ s4.rows # <<>> THEN s4.rows[1] ELSE Null)

\* ifNotExists(condition)
IfNotExists(condition) ==
  /\ builder.kind = "insert"
  /\ builder' = InsertBuilder_ifNotExists(builder, condition)
  /\ lastCall' = Call("ifNotExists", condition, Undefined, Undefined)
  /\ UNCHANGED <<input, output, world>>

\* orIgnore()
OrIgnore ==
  /\ builder.kind = "insert"
  /\ builder' = InsertBuilder_orIgnore(builder)
  /\ lastCall' = Call("orIgnore", Undefined, Undefined, Undefined)
  /\ UNCHANGED <<input, output, world>>

\* orReplace()
OrReplace ==
  /\ builder.kind = "insert"
  /\ builder' = InsertBuilder_orReplace(builder)
  /\ lastCall' = Call("orReplace", Undefined, Undefined, Undefined)
  /\ UNCHANGED <<input, output, world>>

\* the arguments of the calls
execWhereInputs == {One("status", Scalar("active")), One("role", Scalar("nobody"))}

execOrWhereInputs == {One("role", Scalar("guest")), Obj(<<>>)}

execOrderByInputs == {<<"role", "DESC">>}

execLimitInputs == {2}

execOffsetInputs == {1}

pluckInputs == {"status"}

insertData ==
  {<<Entry("status", Scalar("active")), Entry("role", Scalar("guest"))>>,
   <<Entry("id", Num(1)), Entry("status", Scalar("archived"))>>}

ifNotExistsInputs == {One("status", Scalar("archived")), One("role", Scalar("nobody"))}

InitExec ==
  /\ builder \in {NewBuilder("select", <<>>), NewBuilder("delete", <<>>)}
                   \cup {NewBuilder("update", d) : d \in updateData}
                   \cup {NewBuilder("insert", d) : d \in insertData}
  /\ lastCall = Call("new", Undefined, Undefined, Undefined)
  /\ input = Undefined
  /\ output = Undefined
  /\ InitWorld

\* the configuration calls, made before the first toSQL() or terminal call
Configure ==
  /\ terminals = 0
  /\ \/ /\ builder.kind # "insert"
        /\ \/ \E a \in execWhereInputs : Where(a, Undefined, Undefined)
           \/ \E a \in execOrWhereInputs : OrWhere(a, Undefined, Undefined)
           \/ \E o \in execOrderByInputs : OrderBy(o[1], o[2])
           \/ \E n \in execLimitInputs : Limit(n)
     \/ \E n \in execOffsetInputs : Offset(n)
     \/ \E c \in ifNotExistsInputs : IfNotExists(c)
     \/ OrIgnore
     \/ OrReplace

NextExec ==
  \/ Configure
  \/ All
  \/ First
  \/ Exists
  \/ \E c \in pluckInputs : Pluck(c)
  \/ Count
  \/ Run
  \/ BuilderRun
  \/ InsertRun
  \/ ToSQL

SpecExec == InitExec /\ [][NextExec]_vars

---------------------------------------------------------------------------
(* The finders: first(), firstOrFail(), all() and run() of a configured    *)
(* Select builder, findById(id) and findByIdOrFail(id) of the Model.       *)

\* `throw new Error(...)` of firstOrFail and findByIdOrFail: no record
NotFound == [t |-> "throw", error |-> "not found"]

\* `throw new Error(...)` of findById on a table without primary key
NoPrimaryKey == [t |-> "throw", error |-> "no primary key"]

\* a mutation of FirstOrFail: null is returned as first() returns it
FirstOrFailQuiet ==
  /\ builder.kind = "select"
  /\ terminals < MaxTerminals
  /\ \E limited \in {[builder EXCEPT !._limit = Num(1)]} :
     \E q \in {QueryBuilder_buildQuery(limited)} :
     \E s \in {RunStatement(db, statementCache, q, TRUE)} :
       Terminal("firstOrFail", Undefined, limited, s, <<q>>,
                IF ~s.ok THEN Thrown
                ELSE IF s.rows = <<>> THEN Null ELSE s.rows[1])

\* QueryBuilder.firstOrFail(): first(), and a throw for null
FirstOrFail ==
  /\ builder.kind = "select"
  /\ terminals < MaxTerminals
  /\ \E limited \in {[builder EXCEPT !._limit = Num(1)]} :
     \E q \in {QueryBuilder_buildQuery(limited)} :
     \E s \in {RunStatement(db, statementCache, q, TRUE)} :
     \E result \in {IF ~s.ok THEN Thrown
                    ELSE IF s.rows = <<>> THEN Null ELSE s.rows[1]} :
       Terminal("firstOrFail", Undefined, limited, s, <<q>>,
                IF result = Null THEN NotFound ELSE result)

\* the statement of Model.findById(id)
findByIdSql(key) ==
  <<"SELECT", "*", "FROM", Quote(tableName), "WHERE", Quote(key), "=", "?">>

\* Model.findById(id): createResultProxy gives null for no row, and the row
\* with the proxy's methods otherwise
FindById(id) ==
  /\ terminals < MaxTerminals
  /\ IF db.primaryKey = ""
     THEN Terminal("findById", id, builder, Untouched, <<>>, NoPrimaryKey)
     ELSE \E q \in {Statement(findByIdSql(db.primaryKey), <<id>>)} :
          \E s \in {RunStatement(db, statementCache, q, TRUE)} :
            Terminal("findById", id, builder, s, <<q>>,
                     IF ~s.ok THEN Thrown
                     ELSE IF s.rows = <<>> THEN Null ELSE s.rows[1])

\* Model.findByIdOrFail(id): findById(id), and a throw for null
FindByIdOrFail(id) ==
  /\ terminals < MaxTerminals
  /\ IF db.primaryKey = ""
     THEN Terminal("findByIdOrFail", id, builder, Untouched, <<>>, NoPrimaryKey)
     ELSE \E q \in {Statement(findByIdSql(db.primaryKey), <<id>>)} :
          \E s \in {RunStatement(db, statementCache, q, TRUE)} :
          \E result \in {IF ~s.ok THEN Thrown
                         ELSE IF s.rows = <<>> THEN Null ELSE s.rows[1]} :
            Terminal("findByIdOrFail", id, builder, s, <<q>>,
                     IF result = Null THEN NotFound ELSE result)

\* the ids findById and findByIdOrFail are given: of a row, of no row
findByIdInputs == {Num(2), Num(4)}

InitFind ==
  /\ builder = NewBuilder("select", <<>>)
  /\ lastCall = Call("new", Undefined, Undefined, Undefined)
  /\ input = Undefined
  /\ output = Undefined
  /\ InitWorld

NextFind ==
  \/ /\ terminals = 0
     /\ \/ \E a \in execWhereInputs : Where(a, Undefined, Undefined)
        \/ \E a \in execOrWhereInputs : OrWhere(a, Undefined, Undefined)
        \/ \E n \in execLimitInputs : Limit(n)
        \/ \E n \in execOffsetInputs : Offset(n)
  \/ All
  \/ Run
  \/ First
  \/ FirstOrFail
  \/ \E id \in findByIdInputs : FindById(id)
  \/ \E id \in findByIdInputs : FindByIdOrFail(id)

SpecFind == InitFind /\ [][NextFind]_vars

---------------------------------------------------------------------------
(* count() and sum/avg/min/max(column) of a configured Select builder.     *)

\* a mutation of QueryBuilder_aggregateQuery: the statement of buildQuery()
\* with the function as its select list
QueryBuilder_aggregateQueryWithOr(b, fn, column) ==
  QueryBuilder_buildQuery(
    [b EXCEPT !._select = <<fn, "(", Quote(column), ")", "as", "result">>,
              !._having = <<>>, !._orderBy = <<>>,
              !._limit = Undefined, !._offset = Undefined])

\* the statement of QueryBuilder.aggregate(fn, column)
QueryBuilder_aggregateQuery(b, fn, column) ==
  The({Statement(<<"SELECT", fn, "(", Quote(column), ")", "as", "result",
                   "FROM", Quote(tableName)>>
                   \o (IF where.sql # <<>> THEN <<"WHERE">> \o where.sql ELSE <<>>)
                   \o GroupBySql(b),
                 where.params) : where \in {buildWhereClause(b._where)}})

\* `TypeError`: a property of undefined is read
TypeError == [t |-> "throw", error |-> "TypeError"]

\* QueryBuilder.sum / avg / min / max(column): aggregate(fn, column)
Aggregate(fn, column) ==
  /\ builder.kind = "select"
  /\ terminals < MaxTerminals
  /\ \E q \in {QueryBuilder_aggregateQuery(builder, fn, column)} :
     \E s \in {RunStatement(db, statementCache, q, FALSE)} :
       Terminal(fn, Scalar(column), builder, s, <<q>>,
                IF ~s.ok THEN Thrown
                ELSE IF s.rows = <<>> THEN TypeError
                ELSE IF GetKey(s.rows[1].ents, "result") = Null THEN Num(0)
                ELSE GetKey(s.rows[1].ents, "result"))

\* the columns sum, avg, min and max are given
aggregateInputs == {"id"}

aggregateGroupByInputs == {<<"status">>}

InitAggregate ==
  /\ builder = NewBuilder("select", <<>>)
  /\ lastCall = Call("new", Undefined, Undefined, Undefined)
  /\ input = Undefined
  /\ output = Undefined
  /\ InitWorld

NextAggregate ==
  \/ /\ terminals = 0
     /\ \/ \E a \in execWhereInputs : Where(a, Undefined, Undefined)
        \/ \E a \in execOrWhereInputs : OrWhere(a, Undefined, Undefined)
        \/ \E a \in selectHavingInputs : Having(a)
        \/ \E c \in aggregateGroupByInputs : GroupBy(c)
        \/ \E n \in execLimitInputs : Limit(n)
        \/ \E n \in execOffsetInputs : Offset(n)
  \/ Count
  \/ \E fn \in aggregateFunctions, c \in aggregateInputs : Aggregate(fn, c)

SpecAggregate == InitAggregate /\ [][NextAggregate]_vars

---------------------------------------------------------------------------
(* The Insert builder on tables of the three kinds of schema: an INTEGER   *)
(* PRIMARY KEY, a TEXT PRIMARY KEY, no primary key.                        *)

\* the rows of the table whose TEXT PRIMARY KEY is status
textKeyRows ==
  <<Row(1, Scalar("active"), Scalar("admin")), Row(2, Scalar("archived"), Null)>>

\* a table with its rows, and the data an insert into it is given
insertInputs ==
  {[db |-> NewDatabase(initialRows), data |-> d] : d \in insertData}
    \cup {[db |-> [NewDatabase(textKeyRows) EXCEPT !.primaryKey = "status"],
           data |-> <<Entry("status", s), Entry("role", Scalar("guest"))>>] :
            s \in {Scalar("active"), Scalar("nobody")}}
    \cup {[db |-> [NewDatabase(initialRows) EXCEPT !.primaryKey = ""],
           data |-> <<Entry("status", Scalar("active")), Entry("role", Scalar("guest"))>>]}

\* the mappings ifNotExists is given: of a row, of no row, empty
insertIfNotExistsInputs ==
  {One("status", Scalar("archived")), One("role", Scalar("nobody")), Obj(<<>>)}

InitInsert ==
  /\ \E i \in insertInputs :
       /\ builder = NewBuilder("insert", i.data)
       /\ db = i.db
  /\ lastCall = Call("new", Undefined, Undefined, Undefined)
  /\ input = Undefined
  /\ output = Undefined
  /\ statementCache = {}
  /\ executed = <<>>
  /\ returned = Undefined
  /\ terminals = 0

NextInsert ==
  \/ /\ terminals = 0
     /\ \/ \E c \in insertIfNotExistsInputs : IfNotExists(c)
        \/ OrIgnore
        \/ OrReplace
  \/ InsertRun

SpecInsert == InitInsert /\ [][NextInsert]_vars

---------------------------------------------------------------------------
(* run() of a configured Update or Delete builder, on the four rows of the *)
(* update(data).where().orWhere().run() test.                              *)

writeRows ==
  << Row(1, Scalar("active"), Scalar("admin")),
     Row(2, Scalar("inactive"), Scalar("user")),
     Row(3, Scalar("active"), Scalar("user")),
     Row(4, Scalar("active"), Scalar("guest")) >>

writeData == { <<Entry("status", Scalar("archived"))>> }

\* where(conditions) and where(column, operator, value) arguments
writeWhereInputs ==
  { <<One("status", Scalar("inactive")), Undefined, Undefined>>,
    <<Scalar("id"), Scalar("<"), Num(3)>>,
    <<One("role", Obj(<<Entry("$eq", Undefined)>>)), Undefined, Undefined>> }

\* orWhere(conditions) arguments
writeOrWhereInputs ==
  { One("role", Scalar("guest")),
    Obj(<<Entry("status", Scalar("active")), Entry("role", Scalar("user"))>>),
    Obj(<<>>) }

writeLimitInputs == {1}

InitWrite ==
  /\ builder \in {NewBuilder("delete", <<>>)}
                   \cup {NewBuilder("update", d) : d \in writeData}
  /\ lastCall = Call("new", Undefined, Undefined, Undefined)
  /\ input = Undefined
  /\ output = Undefined
  /\ db = NewDatabase(writeRows)
  /\ statementCache = {}
  /\ executed = <<>>
  /\ returned = Undefined
  /\ terminals = 0

NextWrite ==
  \/ /\ terminals = 0
     /\ \/ \E w \in writeWhereInputs : Where(w[1], w[2], w[3])
        \/ \E a \in writeOrWhereInputs : OrWhere(a, Undefined, Undefined)
        \/ \E o \in execOrderByInputs : OrderBy(o[1], o[2])
        \/ \E n \in writeLimitInputs : Limit(n)
  \/ BuilderRun

SpecWrite == InitWrite /\ [][NextWrite]_vars

---------------------------------------------------------------------------
(* The four builders under their value-carrying calls: where, orWhere and  *)
(* having with mappings and triples, limit and offset, and the conflict    *)
(* modes of the Insert builder.                                            *)

isNullFlag == Bag(<<Entry("$isNull", Bool(FALSE))>>)

renderWhereInputs ==
  { Obj(<<Entry("status", Scalar("active")), Entry("id", Num(2))>>),
    Obj(<<Entry("status", gteLt), Entry("role", inList)>>),
    Obj(<<Entry("status", Null), Entry("role", isNullFlag)>>) }

renderTriples == { <<Scalar("id"), Scalar("<="), Num(3)>> }

renderOrWhereInputs ==
  { One("role", Scalar("admin")),
    Obj(<<Entry("id", Bag(<<Entry("$between", Arr(<<Num(1), Num(3)>>))>>)),
          Entry("status", Scalar("active"))>>) }

renderLimitInputs == {2}

InitRender ==
  /\ builder \in {NewBuilder("select", <<>>), NewBuilder("delete", <<>>)}
                   \cup {NewBuilder("update", d) : d \in updateData}
                   \cup {NewBuilder("insert", d) : d \in insertData}
  /\ lastCall = Call("new", Undefined, Undefined, Undefined)
  /\ input = Undefined
  /\ output = Undefined
  /\ InitWorld

NextRender ==
  \/ /\ builder.kind # "insert"
     /\ \/ \E a \in renderWhereInputs : Where(a, Undefined, Undefined)
        \/ \E t \in renderTriples : Where(t[1], t[2], t[3])
        \/ \E a \in renderOrWhereInputs : OrWhere(a, Undefined, Undefined)
        \/ \E n \in renderLimitInputs : Limit(n)
  \/ \E a \in havingInputs : Having(a)
  \/ \E n \in execOffsetInputs : Offset(n)
  \/ OrIgnore
  \/ OrReplace

SpecRender == InitRender /\ [][NextRender]_vars

---------------------------------------------------------------------------
(* The BunQL instances: each has its database handle and its statement     *)
(* cache, which its Models and builders share.  In this part db and        *)
(* statementCache hold the database and the cache of every instance, and a *)
(* prepared statement is [sql, db, id]: its text, the database it was      *)
(* prepared on and the number of the preparation.                          *)

\* the most BunQL instances
MaxHandles == 2

\* the most calls made on the Models
MaxCalls == 3

handles == 1..MaxHandles

\* new Database(filename): an open database
OpenDatabase(rows) ==
  [rows |-> rows, changes |-> 0, lastRowid |-> 0, primaryKey |-> primaryKey,
   open |-> TRUE, prepared |-> 0]

\* the databases and the caches
World(dbs, caches) == [dbs |-> dbs, caches |-> caches]

\* the outcome of a call on the engine: did it succeed, the rows it gave,
\* the world after it, the statements that ran
Outcome(ok, rows, w, ran) == [ok |-> ok, rows |-> rows, w |-> w, ran |-> ran]

\* a statement as it ran: on the database it was prepared on
Ran(stmt, params) == [sql |-> stmt.sql, params |-> params, db |-> stmt.db]

\* db.prepare(sql) on the database of instance h; null when it throws (the
\* database is closed, or the engine rejects the text)
Database_prepare(w, h, sql) ==
  IF w.dbs[h].open /\ Prepare(sql)
  THEN [sql |-> sql, db |-> h, id |-> w.dbs[h].prepared + 1]
  ELSE Null

\* getStatement(sql) of a Model or builder of instance h: the statement and
\* the world after the call
Model_getStatement(w, h, sql) ==
  \* statementCache.get(sql)
  LET hit == {c \in w.caches[h] : c.sql = sql}
  IN IF hit # {}
     THEN [stmt |-> The(hit), w |-> w]
     ELSE The({IF stmt = Null THEN [stmt |-> Null, w |-> w]
               ELSE [stmt |-> stmt,
                     w |-> World([w.dbs EXCEPT ![h].prepared = @ + 1],
                                 [w.caches EXCEPT ![h] = @ \cup {stmt}])] :
                 stmt \in {Database_prepare(w, h, sql)}})

\* stmt.all(...params), stmt.get(...params), stmt.run(...params): the
\* statement runs on the database it was prepared on
Statement_run(w, stmt, params) ==
  IF \/ stmt = Null
     \/ ~w.dbs[stmt.db].open
     \* a mapping or a list is not a value the engine binds
     \/ \E i \in 1..Len(params) : params[i].t \in {"object", "array"}
  THEN Outcome(FALSE, <<>>, w, <<>>)
  ELSE The({Outcome(r.ok, r.rows,
                    World([w.dbs EXCEPT ![stmt.db] =
                             [@ EXCEPT !.rows = r.db.rows, !.changes = r.db.changes,
                                       !.lastRowid = r.db.lastRowid]],
                          w.caches),
                    <<Ran(stmt, params)>>) :
              r \in {Execute(w.dbs[stmt.db], stmt.sql, params)}})

\* getStatement(sql) and the statement's all, get or run
Model_run(w, h, sql, params) ==
  The({The({Outcome(r.ok, r.rows, r.w, r.ran) :
              r \in {Statement_run(g.w, g.stmt, params)}}) :
         g \in {Model_getStatement(w, h, sql)}})

\* db.query(sql).get(): a statement outside the statement cache
Database_query(w, h, sql) ==
  The({IF stmt = Null THEN Outcome(FALSE, <<>>, w, <<>>)
       ELSE Statement_run(World([w.dbs EXCEPT ![h].prepared = @ + 1], w.caches),
                          stmt, <<>>) :
         stmt \in {Database_prepare(w, h, sql)}})

\* Model.all()
Model_all(w, h) ==
  The({[w |-> r.w, ran |-> r.ran, value |-> IF r.ok THEN Arr(r.rows) ELSE Thrown] :
         r \in {Model_run(w, h, <<"SELECT", "*", "FROM", Quote(tableName)>>, <<>>)}})

\* Model.findById(id); createResultProxy gives null for no row
Model_findById(w, h, id) ==
  IF w.dbs[h].primaryKey = ""
  THEN [w |-> w, ran |-> <<>>, value |-> NoPrimaryKey]
  ELSE The({[w |-> r.w, ran |-> r.ran,
             value |-> IF ~r.ok THEN Thrown
                       ELSE IF r.rows = <<>> THEN Null ELSE r.rows[1]] :
              r \in {Model_run(w, h, findByIdSql(w.dbs[h].primaryKey), <<id>>)}})

\* the INSERT of Model.insert(data)
Model_insertSql(data) ==
  <<"INSERT", "INTO", Quote(tableName), "(">>
    \o Join([i \in 1..Len(data) |-> <<Quote(data[i].k)>>], ",")
    \o <<")", "VALUES", "(">> \o Placeholders(Len(data)) \o <<")">>

\* stmt.run(...params) of an INSERT, SELECT last_insert_rowid() and
\* findById(lastId.id), or a copy of data when there is no primary key
Model_inserted(w, h, sql, params, data) ==
  The({IF ~r.ok THEN [w |-> r.w, ran |-> r.ran, value |-> Thrown]
       ELSE The({IF ~l.ok THEN [w |-> l.w, ran |-> r.ran \o l.ran, value |-> Thrown]
                 ELSE IF w.dbs[h].primaryKey = ""
                 THEN [w |-> l.w, ran |-> r.ran \o l.ran, value |-> Obj(data)]
                 ELSE The({[w |-> f.w, ran |-> r.ran \o l.ran \o f.ran,
                            value |-> f.value] :
                             f \in {Model_findById(l.w, h, GetKey(l.rows[1].ents, "id"))}}) :
                   l \in {Database_query(r.w, h, lastIdSql)}}) :
         r \in {Model_run(w, h, sql, params)}})

\* Model.insert(data)
Model_insert(w, h, data) ==
  Model_inserted(w, h, Model_insertSql(data), ObjectValues(data), data)

\* a call on the Model of instance h took the world to c.w
ModelCall(op, h, a, c) ==
  /\ terminals < MaxCalls
  /\ db' = c.w.dbs
  /\ statementCache' = c.w.caches
  /\ executed' = c.ran
  /\ returned' = c.value
  /\ terminals' = terminals + 1
  /\ lastCall' = Call(op, Num(h), a, Undefined)
  /\ UNCHANGED <<builder, input, output>>

\* Model.all() of instance h
ModelAll(h) ==
  \E c \in {Model_all(World(db, statementCache), h)} : ModelCall("all", h, Undefined, c)

\* Model.findById(id) of instance h
ModelFindById(h, id) ==
  \E c \in {Model_findById(World(db, statementCache), h, id)} :
    ModelCall("findById", h, id, c)

\* Model.insert(data) of instance h
ModelInsert(h, data) ==
  \E c \in {Model_insert(World(db, statementCache), h, data)} :
    ModelCall("insert", h, Obj(data), c)

\* a mutation of Close: the statement cache is not cleared
CloseKeepsCache(h) ==
  /\ db[h].open
  /\ db' = [db EXCEPT ![h].open = FALSE]
  /\ lastCall' = Call("close", Num(h), Undefined, Undefined)
  /\ executed' = <<>>
  /\ returned' = Undefined
  /\ UNCHANGED <<builder, input, output, statementCache, terminals>>

\* BunQL.close() of instance h
Close(h) ==
  /\ db[h].open
  /\ statementCache' = [statementCache EXCEPT ![h] = {}]
  /\ db' = [db EXCEPT ![h].open = FALSE]
  /\ lastCall' = Call("close", Num(h), Undefined, Undefined)
  /\ executed' = <<>>
  /\ returned' = Undefined
  /\ UNCHANGED <<builder, input, output, terminals>>

\* the rows Model.insert is given: a new row, and a row with the key of a
\* stored row
modelInsertData ==
  {<<Entry("status", Scalar("active")), Entry("role", Scalar("guest"))>>,
   <<Entry("id", Num(1)), Entry("status", Scalar("archived"))>>}

\* new BunQL(config) for every instance, and define(tableName, schema)
InitHandle ==
  /\ builder = NewBuilder("select", <<>>)
  /\ lastCall = Call("new", Undefined, Undefined, Undefined)
  /\ input = Undefined
  /\ output = Undefined
  /\ db = [h \in handles |-> OpenDatabase(initialRows)]
  /\ statementCache = [h \in handles |-> {}]
  /\ executed = <<>>
  /\ returned = Undefined
  /\ terminals = 0

NextHandle ==
  \E h \in handles :
    \/ ModelAll(h)
    \/ \E id \in findByIdInputs : ModelFindById(h, id)
    \/ \E data \in modelInsertData : ModelInsert(h, data)
    \/ Close(h)

SpecHandle == InitHandle /\ [][NextHandle]_vars

---------------------------------------------------------------------------
(* The Model of one instance: the calls that execute their statements      *)
(* themselves, and transaction(callback) of the instance.                  *)

\* the call threw
Threw(c) == c.value.t = "throw"

\* a mutation of Model_insertMany: the loop ends after the first element
Model_insertManyFirstOnly(w, h, dataArray) ==
  IF dataArray = <<>> THEN [w |-> w, ran |-> <<>>, value |-> Arr(<<>>)]
  ELSE The({IF Threw(first) THEN first
            ELSE [w |-> first.w, ran |-> first.ran, value |-> Arr(<<first.value>>)] :
              first \in {Model_insert(w, h, dataArray[1])}})

RECURSIVE Model_insertMany(_, _, _)
\* Model.insertMany(dataArray): insert(data) for every element in order;
\* an insert that throws ends the loop
Model_insertMany(w, h, dataArray) ==
  IF dataArray = <<>> THEN [w |-> w, ran |-> <<>>, value |-> Arr(<<>>)]
  ELSE The({IF Threw(first) THEN first
            ELSE The({IF Threw(rest)
                      THEN [w |-> rest.w, ran |-> first.ran \o rest.ran, value |-> rest.value]
                      ELSE [w |-> rest.w, ran |-> first.ran \o rest.ran,
                            value |-> Arr(<<first.value>> \o rest.value.items)] :
                        rest \in {Model_insertMany(first.w, h, Tail(dataArray))}}) :
              first \in {Model_insert(w, h, dataArray[1])}})

\* a mutation of BunQL_transaction: the writes of a callback that threw stay
BunQL_transactionNoRollback(w, h, dataArray) == Model_insertMany(w, h, dataArray)

\* BunQL.transaction(callback), the callback inserting the rows of
\* dataArray one after the other: db.transaction(callback)() begins a
\* transaction, calls the callback and commits, or rolls back and rethrows
\* when the callback threw
BunQL_transaction(w, h, dataArray) ==
  The({IF Threw(c)
       THEN [w |-> World([c.w.dbs EXCEPT ![h].rows = w.dbs[h].rows], c.w.caches),
             ran |-> c.ran, value |-> c.value]
       ELSE c :
         c \in {Model_insertMany(w, h, dataArray)}})

\* getStatement(sql).run(...params) and the SELECT changes() query
Model_write(w, h, sql, params) ==
  The({IF ~r.ok THEN [w |-> r.w, ran |-> r.ran, value |-> Thrown]
       ELSE The({[w |-> c.w, ran |-> r.ran \o c.ran,
                  value |-> IF c.ok THEN GetKey(c.rows[1].ents, "count") ELSE Thrown] :
                   c \in {Database_query(r.w, h, changesSql)}}) :
         r \in {Model_run(w, h, sql, params)}})

\* whereKeys.map((k) => `"${k}" = ?`).join(" AND ")
Model_whereConditions(where) ==
  Join([i \in 1..Len(where) |-> <<Quote(where[i].k), "=", "?">>], "AND")

\* Model.delete(where), the call that executes
Model_delete(w, h, where) ==
  Model_write(w, h,
              <<"DELETE", "FROM", Quote(tableName), "WHERE">> \o Model_whereConditions(where),
              ObjectValues(where))

\* Model.update(where, data), the call that executes
Model_update(w, h, where, data) ==
  Model_write(w, h,
              <<"UPDATE", Quote(tableName), "SET">>
                \o Join([i \in 1..Len(data) |-> <<Quote(data[i].k), "=", "?">>], ",")
                \o <<"WHERE">> \o Model_whereConditions(where),
              ObjectValues(data) \o ObjectValues(where))

\* Model.upsert(data)
Model_upsert(w, h, data) ==
  Model_inserted(w, h,
                 <<"INSERT", "OR", "REPLACE">> \o Tail(Model_insertSql(data)),
                 ObjectValues(data), data)

\* the statement of Model.upsertOn(data, conflictColumns, updateData);
\* onConflict, the updateData of the call, is Undefined when it is not given
Model_upsertOnSql(data, conflictColumns, onConflict) ==
  LET keys == ObjectKeys(data)
      updateKeys == IF Truthy(onConflict) THEN ObjectKeys(onConflict.ents)
                    ELSE SelectSeq(keys, LAMBDA k :
                           \A i \in 1..Len(conflictColumns) : conflictColumns[i] # k)
      updateValues == IF Truthy(onConflict) THEN ObjectValues(onConflict.ents) ELSE <<>>
  IN Statement(Model_insertSql(data)
                 \o <<"ON", "CONFLICT", "(">>
                 \o Join([i \in 1..Len(conflictColumns) |-> <<Quote(conflictColumns[i])>>], ",")
                 \o <<")", "DO", "UPDATE", "SET">>
                 \o Join([i \in 1..Len(updateKeys) |->
                            <<Quote(updateKeys[i]), "=", "excluded." \o Quote(updateKeys[i])>>],
                         ","),
               ObjectValues(data) \o updateValues)

\* Model.upsertOn(data, conflictColumns, updateData)
Model_upsertOn(w, h, data, conflictColumns, onConflict) ==
  LET q == Model_upsertOnSql(data, conflictColumns, onConflict)
  IN Model_inserted(w, h, q.sql, q.params, data)

\* the statement of Model.increment(column, amount, where); where is
\* Undefined when it is not given
Model_incrementSql(column, amount, where) ==
  LET clause == IF Truthy(where) THEN buildWhereClause(where.ents)
                ELSE [sql |-> <<>>, params |-> <<>>]
  IN Statement(<<"UPDATE", Quote(tableName), "SET", Quote(column), "=", Quote(column),
                 "+", "?">>
                 \o (IF clause.sql # <<>> THEN <<"WHERE">> \o clause.sql ELSE <<>>),
               <<amount>> \o clause.params)

\* Model.increment(column, amount, where)
Model_increment(w, h, column, amount, where) ==
  LET q == Model_incrementSql(column, amount, where)
  IN Model_write(w, h, q.sql, q.params)

\* Model.count(where); where is Undefined when it is not given
Model_count(w, h, where) ==
  LET given == Truthy(where) /\ where.ents # <<>>
  IN The({[w |-> r.w, ran |-> r.ran,
           value |-> IF r.ok THEN GetKey(r.rows[1].ents, "count") ELSE Thrown] :
            r \in {Model_run(w, h,
                             <<"SELECT", "COUNT(*)", "as", "count", "FROM", Quote(tableName)>>
                               \o (IF given THEN <<"WHERE">> \o Model_whereConditions(where.ents)
                                   ELSE <<>>),
                             IF given THEN ObjectValues(where.ents) ELSE <<>>)}})

\* the instance whose Model is called
model == 1

\* Model.upsert(data)
ModelUpsert(data) ==
  \E c \in {Model_upsert(World(db, statementCache), model, data)} :
    ModelCall("upsert", model, Obj(data), c)

\* Model.upsertOn(data, conflictColumns, updateData)
ModelUpsertOn(data, conflictColumns, onConflict) ==
  \E c \in {Model_upsertOn(World(db, statementCache), model, data, conflictColumns,
                           onConflict)} :
    ModelCall("upsertOn", model,
              Arr(<<Obj(data),
                    Arr([i \in 1..Len(conflictColumns) |-> Scalar(conflictColumns[i])]),
                    onConflict>>), c)

\* Model.increment(column, amount, where)
ModelIncrement(column, amount, where) ==
  \E c \in {Model_increment(World(db, statementCache), model, column, amount, where)} :
    ModelCall("increment", model, Arr(<<Scalar(column), amount, where>>), c)

\* Model.count(where)
ModelCount(where) ==
  \E c \in {Model_count(World(db, statementCache), model, where)} :
    ModelCall("count", model, where, c)

\* Model.delete(where)
ModelDelete(where) ==
  \E c \in {Model_delete(World(db, statementCache), model, where)} :
    ModelCall("delete", model, Obj(where), c)

\* Model.update(where, data)
ModelUpdate(where, data) ==
  \E c \in {Model_update(World(db, statementCache), model, where, data)} :
    ModelCall("update", model, Arr(<<Obj(where), Obj(data)>>), c)

\* the condition mappings of the calls that execute: a scalar, null, an
\* operator bag, and the empty mapping
modelWhereInputs ==
  {<<Entry("status", Scalar("active"))>>,
   <<Entry("role", Null)>>,
   <<Entry("id", Obj(<<Entry("$lt", Num(3))>>))>>,
   <<>>}

\* the data of update(where, data)
modelUpdateData == {<<Entry("status", Scalar("archived"))>>}

\* BunQL.transaction(callback)
Transaction(dataArray) ==
  \E c \in {BunQL_transaction(World(db, statementCache), model, dataArray)} :
    ModelCall("transaction", model, Arr([i \in 1..Len(dataArray) |-> Obj(dataArray[i])]), c)

\* Model.insertMany(dataArray)
InsertMany(dataArray) ==
  \E c \in {Model_insertMany(World(db, statementCache), model, dataArray)} :
    ModelCall("insertMany", model, Arr([i \in 1..Len(dataArray) |-> Obj(dataArray[i])]), c)

\* rows to insert: new rows, and a row with the key of a stored row
newGuest == <<Entry("status", Scalar("active")), Entry("role", Scalar("guest"))>>
newUser == <<Entry("status", Scalar("inactive")), Entry("role", Scalar("user"))>>
storedKey == <<Entry("id", Num(1)), Entry("status", Scalar("archived"))>>

\* the lists of rows given to insertMany and inserted by a callback
dataArrays ==
  {<<>>, <<newGuest>>, <<newGuest, newUser>>, <<newGuest, storedKey>>,
   <<newGuest, storedKey, newUser>>}

\* new BunQL(config) and define(tableName, schema)
InitModel ==
  /\ builder = NewBuilder("select", <<>>)
  /\ lastCall = Call("new", Undefined, Undefined, Undefined)
  /\ input = Undefined
  /\ output = Undefined
  /\ db = [h \in {model} |-> OpenDatabase(initialRows)]
  /\ statementCache = [h \in {model} |-> {}]
  /\ executed = <<>>
  /\ returned = Undefined
  /\ terminals = 0

NextModel ==
  \/ \E dataArray \in dataArrays : Transaction(dataArray)
  \/ \E dataArray \in dataArrays : InsertMany(dataArray)

SpecModel == InitModel /\ [][NextModel]_vars

\* the calls of the Model that execute an UPDATE or a DELETE
NextImmediate ==
  \/ \E where \in modelWhereInputs : ModelDelete(where)
  \/ \E where \in modelWhereInputs, data \in modelUpdateData : ModelUpdate(where, data)

SpecImmediate == InitModel /\ [][NextImmediate]_vars

\* the rows given to upsert and upsertOn: with the key of a stored row, and
\* with a key that is not stored
upsertData ==
  {<<Entry("id", Num(1)), Entry("status", Scalar("archived"))>>,
   <<Entry("id", Num(5)), Entry("status", Scalar("inactive"))>>}

\* the data and the updateData of upsertOn: updateData not given
\* (Undefined), and given
upsertOnInputs ==
  {[data |-> data, updateData |-> Undefined] : data \in upsertData}
    \cup {[data |-> <<Entry("id", Num(1)), Entry("status", Scalar("archived"))>>,
           updateData |-> Obj(<<Entry("role", Scalar("user"))>>)]}

\* the where of count: not given, and given
countInputs == {Undefined, Obj(<<Entry("status", Scalar("active"))>>)}

\* the calls of the Model that execute their statement themselves
NextStatements ==
  \/ ModelInsert(model, newGuest)
  \/ ModelUpsert(<<Entry("id", Num(1)), Entry("status", Scalar("archived"))>>)
  \/ \E i \in upsertOnInputs : ModelUpsertOn(i.data, <<"id">>, i.updateData)
  \/ ModelUpdate(<<Entry("status", Scalar("active"))>>, <<Entry("role", Scalar("user"))>>)
  \/ ModelDelete(<<Entry("status", Scalar("active"))>>)
  \/ ModelIncrement("id", Num(1), Obj(<<Entry("id", Num(3))>>))
  \/ \E where \in countInputs : ModelCount(where)

SpecStatements == InitModel /\ [][NextStatements]_vars

---------------------------------------------------------------------------
(* The ResultProxy: a fetched row with the operations on it.  In this part *)
(* builder is the wrapper: the primary key it knows ("" for none) and the  *)
(* row it wraps.                                                           *)

\* new ResultProxy(db, tableName, statementCache, primaryKey, data)
NewResultProxy(key, data) == [kind |-> "proxy", primaryKey |-> key, _data |-> data]

\* a call of the wrapper that ran no statement
Unexecuted(d, cache, value) == [value |-> value, db |-> d, cache |-> cache, ran |-> <<>>]

\* getStatement(sql).run(...params) and the SELECT changes() query
ResultProxy_write(d, cache, q) ==
  The({IF ~s.ok THEN [value |-> Thrown, db |-> s.db, cache |-> s.cache, ran |-> <<q>>]
       ELSE The({[value |-> GetKey(c.rows[1].ents, "count"), db |-> c.db, cache |-> c.cache,
                  ran |-> <<q, Statement(changesSql, <<>>)>>] :
                   c \in {RunStatement(s.db, s.cache, Statement(changesSql, <<>>), FALSE)}}) :
         s \in {RunStatement(d, cache, q, TRUE)}})

\* !this.primaryKey || !(this.primaryKey in this._data)
ResultProxy_keyless(p) == p.primaryKey = "" \/ ~HasKey(p._data.ents, p.primaryKey)

\* the UPDATE of update(data) and save(): the columns cols set to vals on
\* the row of the wrapper
ResultProxy_updateSql(p, cols, vals) ==
  Statement(<<"UPDATE", Quote(tableName), "SET">>
              \o Join([i \in 1..Len(cols) |-> <<Quote(cols[i]), "=", "?">>], ",")
              \o <<"WHERE", Quote(p.primaryKey), "=", "?">>,
            vals \o <<GetKey(p._data.ents, p.primaryKey)>>)

\* ResultProxy.delete()
ResultProxy_delete(p, d, cache) ==
  IF p._data = Null THEN Unexecuted(d, cache, Num(0))
  ELSE IF ResultProxy_keyless(p) THEN Unexecuted(d, cache, NoPrimaryKey)
  ELSE ResultProxy_write(d, cache,
         Statement(<<"DELETE", "FROM", Quote(tableName),
                     "WHERE", Quote(p.primaryKey), "=", "?">>,
                   <<GetKey(p._data.ents, p.primaryKey)>>))

\* ResultProxy.update(data)
ResultProxy_update(p, d, cache, data) ==
  IF p._data = Null THEN Unexecuted(d, cache, Num(0))
  ELSE IF ResultProxy_keyless(p) THEN Unexecuted(d, cache, NoPrimaryKey)
  ELSE ResultProxy_write(d, cache,
         ResultProxy_updateSql(p, ObjectKeys(data), ObjectValues(data)))

\* ResultProxy.save()
ResultProxy_save(p, d, cache) ==
  IF p._data = Null THEN Unexecuted(d, cache, Num(0))
  ELSE IF ResultProxy_keyless(p) THEN Unexecuted(d, cache, NoPrimaryKey)
  ELSE LET kept == SelectSeq(p._data.ents, LAMBDA e : e.k # p.primaryKey)
       IN ResultProxy_write(d, cache,
            ResultProxy_updateSql(p, ObjectKeys(kept), ObjectValues(kept)))

\* createResultProxy(db, tableName, statementCache, primaryKey, data)
createResultProxy(key, data) ==
  IF data = Null THEN Null ELSE NewResultProxy(key, data)

\* ResultProxy.refresh()
ResultProxy_refresh(p, d, cache) ==
  IF p._data = Null \/ ResultProxy_keyless(p) THEN Unexecuted(d, cache, Null)
  ELSE LET q == Statement(findByIdSql(p.primaryKey),
                          <<GetKey(p._data.ents, p.primaryKey)>>)
       IN
         The({[value |-> IF ~s.ok THEN Thrown
                         ELSE createResultProxy(p.primaryKey,
                                                IF s.rows = <<>> THEN Null ELSE s.rows[1]),
               db |-> s.db, cache |-> s.cache, ran |-> <<q>>] :
                s \in {RunStatement(d, cache, q, TRUE)}})

\* a call on the wrapper gave c
ProxyCall(op, a, c) ==
  /\ terminals < MaxCalls
  /\ db' = c.db
  /\ statementCache' = c.cache
  /\ executed' = c.ran
  /\ returned' = c.value
  /\ terminals' = terminals + 1
  /\ lastCall' = Call(op, a, Undefined, Undefined)
  /\ UNCHANGED <<builder, input, output>>

\* result.delete()
ProxyDelete ==
  \E c \in {ResultProxy_delete(builder, db, statementCache)} :
    ProxyCall("delete", Undefined, c)

\* result.update(data)
ProxyUpdate(data) ==
  \E c \in {ResultProxy_update(builder, db, statementCache, data)} :
    ProxyCall("update", Obj(data), c)

\* result.save()
ProxySave ==
  \E c \in {ResultProxy_save(builder, db, statementCache)} :
    ProxyCall("save", Undefined, c)

\* result.refresh()
ProxyRefresh ==
  \E c \in {ResultProxy_refresh(builder, db, statementCache)} :
    ProxyCall("refresh", Undefined, c)

\* result[prop] = value: the set trap of the Proxy writes the row
ProxySet(prop, value) ==
  /\ builder._data # Null
  /\ builder' = [builder EXCEPT !._data = Obj(SetKey(@.ents, prop, value))]
  /\ lastCall' = Call("set", Scalar(prop), Undefined, value)
  /\ UNCHANGED <<input, output, world>>

\* the wrappers: of a row fetched whole, of a row fetched without its key,
\* and of no row, on a table with a primary key and on a table without one
proxyInputs ==
  {[db |-> NewDatabase(initialRows), key |-> primaryKey, data |-> data] :
     data \in {Obj(initialRows[1]), Obj(initialRows[2]),
               Obj(<<Entry("status", Scalar("active"))>>), Null}}
    \cup {[db |-> [NewDatabase(initialRows) EXCEPT !.primaryKey = ""], key |-> "",
           data |-> data] :
            data \in {Obj(SelectSeq(initialRows[1], LAMBDA e : e.k # rowid)), Null}}

\* the data given to update(data)
proxyUpdateData == {<<Entry("status", Scalar("archived"))>>}

InitProxy ==
  /\ \E i \in proxyInputs :
       /\ builder = NewResultProxy(i.key, i.data)
       /\ db = i.db
  /\ lastCall = Call("new", Undefined, Undefined, Undefined)
  /\ input = Undefined
  /\ output = Undefined
  /\ statementCache = {}
  /\ executed = <<>>
  /\ returned = Undefined
  /\ terminals = 0

NextProxy ==
  \/ ProxyDelete
  \/ \E data \in proxyUpdateData : ProxyUpdate(data)
  \/ ProxySave
  \/ ProxyRefresh
  \/ ProxySet("role", Scalar("user"))

SpecProxy == InitProxy /\ [][NextProxy]_vars

---------------------------------------------------------------------------
(* where and orWhere of the Update and Delete builders called with two     *)
(* arguments, a column and a value, beside the calls with a mapping and    *)
(* with column, operator and value.                                        *)

\* where(...) and orWhere(...) arguments: (column, value), also with a
\* value that is an operator symbol, (column, "=", value) and a mapping
shorthandInputs ==
  { <<Scalar("status"), Scalar("inactive"), Undefined>>,
    <<Scalar("role"), Scalar("="), Undefined>>,
    <<Scalar("status"), Scalar("="), Scalar("inactive")>>,
    <<One("status", Scalar("inactive")), Undefined, Undefined>> }

InitShorthand == InitWrite

NextShorthand ==
  \/ /\ terminals = 0
     /\ \/ \E w \in shorthandInputs : Where(w[1], w[2], w[3])
        \/ \E w \in shorthandInputs : OrWhere(w[1], w[2], w[3])
  \/ BuilderRun

SpecShorthand == InitShorthand /\ [][NextShorthand]_vars

---------------------------------------------------------------------------
(* The pure functions on their own: an argument is drawn, the function is  *)
(* applied to it once.                                                     *)

\* the ComparisonOperator symbols, and two strings that are none
symbols == {"=", "!=", "<>", ">", "<", ">=", "<=", "LIKE", "NOT LIKE"}

otherSymbols == {"~", "IN"}

\* the payloads a tag is written with
payloads(tag) ==
  CASE tag \in {"$in", "$notIn"} ->
         {Arr(<<>>), Arr(<<Scalar("admin"), Scalar("guest")>>)}
    [] tag = "$between" -> {Arr(<<Scalar("10"), Scalar("20")>>)}
    [] tag = "$isNull" -> {Bool(TRUE), Bool(FALSE)}
    [] tag = "$gte" -> {Scalar("10")}
    [] tag = "$lt" -> {Scalar("20")}
    [] OTHER -> {Scalar("10"), Null}

\* the most tags a bag is written with
MaxTags == 2

\* the operator bags buildCondition is given: up to MaxTags distinct tags
bags ==
  LET Tags(e) == {e[i].k : i \in 1..Len(e)}
      Extend(S) ==
        UNION {{Append(e, Entry(tag, p)) : p \in payloads(tag)} :
                 e \in S, tag \in {ops[i] : i \in 1..Len(ops)}}
      NoRepeat(S) == {e \in S : Cardinality(Tags(e)) = Len(e)}
      Level[n \in 0..MaxTags] ==
        IF n = 0 THEN {<<>>} ELSE NoRepeat(Extend(Level[n - 1]))
  IN UNION {Level[n] : n \in 1..MaxTags}

normalizeInputs ==
  {[f |-> "operatorToCondition", column |-> "status", operator |-> o, value |-> v] :
     o \in symbols \cup otherSymbols, v \in {Scalar("10"), Null}}

compileInputs ==
  {[f |-> "buildCondition", column |-> "status", value |-> Bag(e)] : e \in bags}

\* operatorToCondition(operator, value), and where(column, operator, value)
\* on a new DeleteBuilder, rendered
ApplyOperatorToCondition ==
  /\ input.f = "operatorToCondition"
  /\ output = Undefined
  /\ output' =
       [bag |-> operatorToCondition(input.operator, input.value),
        rendered |-> toSQL(Builder_where(NewBuilder("delete", <<>>),
                                         Scalar(input.column),
                                         Scalar(input.operator), input.value))]
  /\ UNCHANGED <<builder, lastCall, input, world>>

\* buildCondition(column, bag, [])
ApplyBuildCondition ==
  /\ input.f = "buildCondition"
  /\ output = Undefined
  /\ output' = buildCondition(input.column, input.value)
  /\ UNCHANGED <<builder, lastCall, input, world>>

InitCompile ==
  /\ builder = NewBuilder("delete", <<>>)
  /\ lastCall = Call("new", Undefined, Undefined, Undefined)
  /\ input \in normalizeInputs \cup compileInputs
  /\ output = Undefined
  /\ InitWorld

NextCompile ==
  \/ ApplyOperatorToCondition
  \/ ApplyBuildCondition

SpecCompile == InitCompile /\ [][NextCompile]_vars

---------------------------------------------------------------------------
(* buildWhereClause on its own: a condition mapping is drawn and compiled  *)
(* once.                                                                   *)

\* the values a column of the mapping is given: a scalar, the empty bag, a
\* bag whose payloads are all undefined, a bag with a payload; and Undefined
\* for a column that is not in the mapping
conditionValues ==
  {Undefined, Scalar("active"), Obj(<<>>), Obj(<<Entry("$eq", Undefined)>>),
   Obj(<<Entry("$gte", Num(1)), Entry("$ne", Undefined)>>)}

\* the mappings buildWhereClause is given: the columns in the order of the
\* table, each with one of the values or not there
whereClauseInputs ==
  {[f |-> "buildWhereClause",
    where |-> SelectSeq([i \in 1..Len(tableColumns) |-> Entry(tableColumns[i], v[i])],
                        LAMBDA e : e.v # Undefined)] :
     v \in [1..Len(tableColumns) -> conditionValues]}

\* buildWhereClause(where, [])
ApplyBuildWhereClause ==
  /\ input.f = "buildWhereClause"
  /\ output = Undefined
  /\ output' = buildWhereClause(input.where)
  /\ UNCHANGED <<builder, lastCall, input, world>>

InitWhere ==
  /\ builder = NewBuilder("select", <<>>)
  /\ lastCall = Call("new", Undefined, Undefined, Undefined)
  /\ input \in whereClauseInputs
  /\ output = Undefined
  /\ InitWorld

NextWhere == ApplyBuildWhereClause

SpecWhere == InitWhere /\ [][NextWhere]_vars

---------------------------------------------------------------------------
(* What the properties read off a rendered statement and off a state *)

\* the number of `?` placeholders of a statement
NumPlaceholders(sql) == Cardinality({i \in 1..Len(sql) : sql[i] = "?"})

\* the positions of the placeholders, from the left
PlaceholderPositions(sql) ==
  SelectSeq([i \in 1..Len(sql) |-> i], LAMBDA i : sql[i] = "?")

quotedColumns == {Quote(c) : c \in columns}

\* for every placeholder from the left, the quoted column it stands for: the
\* last quoted column before it
PlaceholderColumns(sql) ==
  LET pos == PlaceholderPositions(sql)
      ColumnBefore(p) ==
        LET ks == {k \in 1..(p - 1) : sql[k] \in quotedColumns}
        IN IF ks = {} THEN "" ELSE sql[CHOOSE k \in ks : \A l \in ks : l <= k]
  IN [j \in 1..Len(pos) |-> ColumnBefore(pos[j])]

\* the tags of an operator bag in the order of the specification's table
tagOrder ==
  <<"$eq", "$ne", "$gt", "$gte", "$lt", "$lte", "$like", "$notLike",
    "$in", "$notIn", "$between", "$isNull">>

\* an operator bag: an object with at least one recognized tag
IsBag(v) == v.t = "object" /\ \E i \in 1..Len(tagOrder) : HasKey(v.ents, tagOrder[i])

\* the values one tag of a bag binds: none for isNull and for an absent or
\* undefined payload, the elements of in/notIn, the two ends of between, the
\* payload itself otherwise
TagValues(tag, payload) ==
  CASE payload = Undefined -> <<>>
    [] tag = "$isNull" -> <<>>
    [] tag \in {"$in", "$notIn"} ->
         IF payload.t = "array" THEN payload.items ELSE <<>>
    [] tag = "$between" ->
         IF payload.t = "array" THEN <<payload.items[1], payload.items[2]>> ELSE <<>>
    [] OTHER -> <<payload>>

\* the values a column's condition binds, in the order of the table
ValuesOf(v) ==
  IF IsBag(v)
  THEN Concat([i \in 1..Len(tagOrder) |->
                 TagValues(tagOrder[i], GetKey(v.ents, tagOrder[i]))])
  ELSE <<v>>

\* the values a condition mapping binds, column by column
MappingValues(ents) == Concat([i \in 1..Len(ents) |-> ValuesOf(ents[i].v)])

\* the column each of these values belongs to
MappingOwners(ents) ==
  Concat([i \in 1..Len(ents) |->
            [j \in 1..Len(ValuesOf(ents[i].v)) |-> Quote(ents[i].k)]])

\* SET values, AND-state parameters, every OR branch's in list order, HAVING
ExpectedParams(b) ==
  (IF b.kind = "update" THEN ObjectValues(b._data) ELSE <<>>)
    \o MappingValues(b._where)
    \o Concat([i \in 1..Len(b._orConditions) |->
                 MappingValues(b._orConditions[i].ents)])
    \o (IF b.kind = "select" THEN MappingValues(b._having) ELSE <<>>)

ExpectedOwners(b) ==
  (IF b.kind = "update"
   THEN [i \in 1..Len(b._data) |-> Quote(b._data[i].k)] ELSE <<>>)
    \o MappingOwners(b._where)
    \o Concat([i \in 1..Len(b._orConditions) |->
                 MappingOwners(b._orConditions[i].ents)])
    \o (IF b.kind = "select" THEN MappingOwners(b._having) ELSE <<>>)

clauseKeywords == {"GROUP", "HAVING", "ORDER", "LIMIT", "OFFSET"}

\* the WHERE clause of a statement: from the WHERE keyword to the next
\* clause keyword or the end; empty when there is no WHERE keyword
WhereClauseOf(sql) ==
  LET ws == {i \in 1..Len(sql) : sql[i] = "WHERE"}
  IN IF ws = {} THEN <<>>
     ELSE LET w == CHOOSE i \in ws : TRUE
              ends == {i \in (w + 1)..Len(sql) : sql[i] \in clauseKeywords}
              e == IF ends = {} THEN Len(sql) + 1
                   ELSE CHOOSE i \in ends : \A j \in ends : i <= j
          IN SubSeq(sql, w, e - 1)

\* `(<branch>)` of every OR branch, each preceded by sep
Branches(b, sep) ==
  Concat([i \in 1..Len(b._orConditions) |->
            <<sep, "(">> \o buildWhereClause(b._orConditions[i].ents).sql \o <<")">>])

---------------------------------------------------------------------------
(* C1.  In every state of a Select, Update or Delete builder reached by    *)
(* where/orWhere/having calls, the rendered SQL has as many placeholders   *)
(* as the parameter list has entries, the i-th placeholder stands for the  *)
(* column the i-th parameter was given for, and the list is the SET        *)
(* values, then the AND-state's, then each OR branch's in registration     *)
(* order, then the HAVING parameters.                                      *)
C1_PlaceholdersMatchParams ==
  LET q == toSQL(builder)
  IN /\ NumPlaceholders(q.sql) = Len(q.params)
     /\ q.params = ExpectedParams(builder)
     /\ PlaceholderColumns(q.sql) = ExpectedOwners(builder)

\* an update with SET values, a two-parameter AND-state and two OR branches
C1_Witness ==
  /\ builder.kind = "update"
  /\ Len(builder._data) = 2
  /\ Len(builder._where) = 2
  /\ Len(builder._orConditions) = 2
  /\ Len(toSQL(builder).params) >= 7

WhereParamsOf(b) ==
  LET params == toSQL(b).params
      set == IF b.kind = "update" THEN Len(b._data) ELSE 0
      having == IF b.kind = "select" THEN Len(buildWhereClause(b._having).params) ELSE 0
  IN SubSeq(params, set + 1, Len(params) - having)

TagFragment(column, tag, payload) ==
  CASE tag = "$eq" -> <<column, "=", "?">>
    [] tag = "$ne" -> <<column, "!=", "?">>
    [] tag = "$gt" -> <<column, ">", "?">>
    [] tag = "$gte" -> <<column, ">=", "?">>
    [] tag = "$lt" -> <<column, "<", "?">>
    [] tag = "$lte" -> <<column, "<=", "?">>
    [] tag = "$like" -> <<column, "LIKE", "?">>
    [] tag = "$notLike" -> <<column, "NOT", "LIKE", "?">>
    [] tag = "$in" ->
         <<column, "IN", "(">> \o Placeholders(Len(payload.items)) \o <<")">>
    [] tag = "$notIn" ->
         <<column, "NOT", "IN", "(">> \o Placeholders(Len(payload.items)) \o <<")">>
    [] tag = "$between" -> <<column, "BETWEEN", "?", "AND", "?">>
    [] tag = "$isNull" ->
         IF payload = Bool(TRUE) THEN <<column, "IS", "NULL">>
         ELSE <<column, "IS", "NOT", "NULL">>

(* C5.  A bag with several tags renders its per-tag fragments joined by    *)
(* AND in the order eq, ne, gt, gte, lt, lte, like, notLike, in, notIn,    *)
(* between, isNull, whatever the order the tags were written in, and its   *)
(* parameters in that same order (none for isNull, one per element for     *)
(* in/notIn, two for between, one otherwise); {gte: 10, lt: 20} renders    *)
(* "col" >= ? AND "col" < ? with [10, 20].                                 *)
C5_FixedTagOrder ==
  input.f = "buildCondition" /\ output # Undefined =>
    LET e == input.value.ents
        c == Quote(input.column)
        present == SelectSeq(tagOrder, LAMBDA tag : HasKey(e, tag))
        reversed == Bag([i \in 1..Len(e) |-> e[Len(e) + 1 - i]])
    IN /\ output.sql
            = Join([i \in 1..Len(present) |->
                      TagFragment(c, present[i], GetKey(e, present[i]))], "AND")
       /\ output.params = ValuesOf(input.value)
       /\ NumPlaceholders(output.sql) = Len(output.params)
       /\ output = buildCondition(input.column, reversed)
       /\ {e[i] : i \in 1..Len(e)}
            = {Entry("$gte", Scalar("10")), Entry("$lt", Scalar("20"))}
          => /\ output.sql = <<c, ">=", "?", "AND", c, "<", "?">>
             /\ output.params = <<Scalar("10"), Scalar("20")>>

\* the bag written {lt: 20, gte: 10} was compiled
C5_Witness ==
  /\ input.f = "buildCondition"
  /\ input.value = Bag(<<Entry("$lt", Scalar("20")), Entry("$gte", Scalar("10"))>>)
  /\ output # Undefined
  /\ output.params = <<Scalar("10"), Scalar("20")>>

(* C6.  An empty mapping compiles to an empty fragment, and no builder     *)
(* renders a WHERE or HAVING keyword followed by an empty condition, an    *)
(* empty OR branch `()` included.                                          *)
C6_NoEmptyCondition ==
  LET sql == toSQL(builder).sql
  IN /\ buildWhereClause(<<>>).sql = <<>>
     /\ \A i \in 1..Len(sql) :
          /\ sql[i] \in {"WHERE", "HAVING"} =>
               i < Len(sql) /\ sql[i + 1] \notin clauseKeywords
          /\ sql[i] = "(" /\ i < Len(sql) /\ sql[i + 1] = ")" =>
               i > 1 /\ sql[i - 1] = "IN"

\* the configuration calls of the Select builder, as functions of its state
ConfigCalls ==
  {[field |-> "_where", arg |-> a] : a \in selectWhereInputs}
    \cup {[field |-> "_orConditions", arg |-> a] : a \in selectOrWhereInputs}
    \cup {[field |-> "_having", arg |-> a] : a \in selectHavingInputs}
    \cup {[field |-> "_orderBy", arg |-> a] : a \in orderByInputs}
    \cup {[field |-> "_limit", arg |-> a] : a \in limitInputs}
    \cup {[field |-> "_offset", arg |-> a] : a \in offsetInputs}
    \cup {[field |-> "_groupBy", arg |-> a] : a \in groupByInputs}

ApplyCall(b, c) ==
  CASE c.field = "_where" -> QueryBuilder_where(b, c.arg)
    [] c.field = "_orConditions" -> QueryBuilder_orWhere(b, c.arg)
    [] c.field = "_having" -> QueryBuilder_having(b, c.arg)
    [] c.field = "_orderBy" -> Builder_orderBy(b, c.arg[1], c.arg[2])
    [] c.field = "_limit" -> Builder_limit(b, c.arg)
    [] c.field = "_offset" -> QueryBuilder_offset(b, c.arg)
    [] c.field = "_groupBy" -> QueryBuilder_groupBy(b, c.arg)

\* the position of a keyword in a statement, 0 when it does not occur
KeywordAt(sql, kw) ==
  IF \E i \in 1..Len(sql) : sql[i] = kw
  THEN CHOOSE i \in 1..Len(sql) : sql[i] = kw
  ELSE 0

clauseOrder == <<"WHERE", "GROUP", "HAVING", "ORDER", "LIMIT", "OFFSET">>

(* C7.  Whatever the order of the where, orWhere, groupBy, having,         *)
(* orderBy, limit and offset calls, every clause keyword occurs at most    *)
(* once in the rendered SELECT and the clauses present stand in the order  *)
(* WHERE, GROUP BY, HAVING, ORDER BY, LIMIT, OFFSET; and two calls that    *)
(* set different fields render the same SQL and parameters in either       *)
(* order.                                                                  *)
C7_ClauseOrder ==
  LET sql == toSQL(builder).sql
  IN /\ \A i \in 1..Len(clauseOrder) :
          Cardinality({k \in 1..Len(sql) : sql[k] = clauseOrder[i]}) <= 1
     /\ \A i, j \in 1..Len(clauseOrder) :
          /\ i < j
          /\ KeywordAt(sql, clauseOrder[i]) > 0
          /\ KeywordAt(sql, clauseOrder[j]) > 0
          => KeywordAt(sql, clauseOrder[i]) < KeywordAt(sql, clauseOrder[j])
     /\ \A f, g \in ConfigCalls :
          f.field # g.field =>
            LET fg == ApplyCall(ApplyCall(builder, f), g)
                gf == ApplyCall(ApplyCall(builder, g), f)
            IN fg = gf \/ toSQL(fg) = toSQL(gf)

\* all six clauses are rendered, and where(...) was the last call made
C7_Witness ==
  /\ lastCall.op = "where"
  /\ \A i \in 1..Len(clauseOrder) : KeywordAt(toSQL(builder).sql, clauseOrder[i]) > 0

(* C8.  A where call leaves the OR-list alone and makes the AND-state the  *)
(* right-biased merge of the earlier AND-state and its mapping (for a      *)
(* triple, the one-column mapping of the normalized operator): the         *)
(* mapping's columns take its conditions whole, the other columns keep     *)
(* theirs.  An orWhere call leaves the AND-state alone, appends exactly    *)
(* one branch and keeps the earlier branches.                              *)
C8_WhereMergesOrWhereAppends ==
  [][LET given == IF lastCall'.o # Undefined
                  THEN <<Entry(lastCall'.a.s,
                               operatorToCondition(lastCall'.o.s, lastCall'.v))>>
                  ELSE lastCall'.a.ents
         old == builder._where
         new == builder'._where
         keys(m) == {m[i].k : i \in 1..Len(m)}
     IN /\ lastCall'.op = "where" =>
             /\ builder'._orConditions = builder._orConditions
             /\ keys(new) = keys(old) \cup keys(given)
             /\ Len(new) = Cardinality(keys(new))
             /\ \A k \in keys(new) :
                  GetKey(new, k) = IF k \in keys(given) THEN GetKey(given, k)
                                   ELSE GetKey(old, k)
        /\ lastCall'.op = "orWhere" =>
             /\ new = old
             /\ Len(builder'._orConditions) = Len(builder._orConditions) + 1
             /\ SubSeq(builder'._orConditions, 1, Len(builder._orConditions))
                  = builder._orConditions
    ]_vars

\* where("status", ">", "active") replaced the condition of status, which
\* was set before role was, on a builder that has an OR branch
C8_Witness ==
  /\ lastCall = Call("where", Scalar("status"), Scalar(">"), Scalar("active"))
  /\ Len(builder._where) = 2
  /\ builder._where[1] = Entry("status", Bag(<<Entry("$gt", Scalar("active"))>>))
  /\ Len(builder._orConditions) > 0

\* sql holds the tokens of part next to each other, in order
Within(part, sql) ==
  \E i \in 0..(Len(sql) - Len(part)) : SubSeq(sql, i + 1, i + Len(part)) = part

\* the statement exists() hands to the engine for the query q
ExistsOf(q) ==
  Statement(<<"SELECT", "EXISTS", "(">> \o q.sql \o <<")", "as", "exists_result">>,
            q.params)

\* the statement count() hands to the engine for the builder b
CountOf(b) ==
  The({Statement(<<"SELECT", "COUNT(*)", "as", "count", "FROM", Quote(tableName)>>
                   \o (IF where.sql # <<>> THEN <<"WHERE">> \o where.sql ELSE <<>>),
                 where.params) : where \in {buildWhereClause(b._where)}})

(* C9, as stated.  toSQL() returns the SQL text and the parameter list     *)
(* that a terminal call on the same builder state executes: whatever the   *)
(* terminal call, one of the statements it hands to the engine has the     *)
(* parameters toSQL() returns on the state the call is made on, and holds  *)
(* the text toSQL() returns; and a toSQL() call leaves the builder, the    *)
(* statement cache and the database as they are.                           *)
C9_ToSQLIsWhatEveryTerminalExecutes ==
  [][terminals' = terminals + 1 =>
       \E q \in {toSQL(builder)} :
         IF lastCall'.op = "toSQL"
         THEN /\ returned' = q
              /\ builder' = builder
              /\ statementCache' = statementCache
              /\ db' = db
         ELSE \E i \in 1..Len(executed') :
                /\ executed'[i].params = q.params
                /\ Within(q.sql, executed'[i].sql)
    ]_vars

(* C9, amended.  toSQL() returns buildQuery() of the state it is called    *)
(* on, hands nothing to the engine and leaves the builder, the statement   *)
(* cache and the database as they are; a second toSQL() returns what the   *)
(* first did.  That statement is the one statement all() and run() of the  *)
(* Select builder execute, the first statement run() of the Update and     *)
(* Delete builders executes (the affected-row query follows it), and the   *)
(* INSERT that run() of the Insert builder executes unless the ifNotExists *)
(* check stops it after the check statement.  first() executes toSQL() of  *)
(* the state with the limit set to 1; pluck(c) executes toSQL() of the     *)
(* state with the select list set to c; exists() executes the toSQL() text *)
(* inside SELECT EXISTS(...) with the same parameters; count() executes a  *)
(* statement of its own, built from the AND-state only.                    *)
C9_ToSQLIsWhatAllAndRunExecute ==
  [][terminals' = terminals + 1 =>
       \E q \in {toSQL(builder)} :
       \E op \in {lastCall'.op} :
       \E kind \in {builder.kind} :
         /\ op = "toSQL" =>
              /\ returned' = q
              /\ executed' = <<>>
              /\ builder' = builder
              /\ statementCache' = statementCache
              /\ db' = db
              /\ lastCall.op = "toSQL" => returned' = returned
         /\ op \in {"all", "run"} /\ kind = "select" =>
              /\ executed' = <<q>>
              /\ builder' = builder
              /\ lastCall.op = "toSQL" => executed' = <<returned>>
         /\ op = "run" /\ kind \in {"update", "delete"} =>
              /\ executed'[1] = q
              /\ Len(executed') > 1 => executed' = <<q, Statement(changesSql, <<>>)>>
              /\ lastCall.op = "toSQL" => executed'[1] = returned
         /\ op = "run" /\ kind = "insert" =>
              \/ executed'[1] = q
              \/ /\ builder._checkCondition # Null
                 /\ executed'[1].sql[2] = "EXISTS"
                 /\ \/ Len(executed') = 1 /\ returned' \in {Null, Thrown}
                    \/ executed'[2] = q
         /\ op = "first" => executed' = <<toSQL([builder EXCEPT !._limit = Num(1)])>>
         /\ op = "pluck" =>
              executed' = <<toSQL([builder EXCEPT !._select = <<lastCall'.a.s>>])>>
         /\ op = "exists" => executed' = <<ExistsOf(q)>>
         /\ op = "count" => executed' = <<CountOf(builder)>>
    ]_vars

\* toSQL() was called on a builder with conditions after a terminal call
\* had put its statement in the cache, and returned the rendering
C9_Witness ==
  /\ lastCall.op = "toSQL"
  /\ terminals = 2
  /\ statementCache # {}
  /\ returned = toSQL(builder)
  /\ returned.params # <<>>

(* C10.  first() hands the engine one statement, the rendering of the      *)
(* builder with the limit set to 1 whatever limit the builder had, and     *)
(* leaves the builder with limit 1.  It returns null when the query        *)
(* without its limit has no row past the offset, and the first such row    *)
(* otherwise, never a list; only a statement the engine rejects makes it   *)
(* throw.                                                                  *)
C10_FirstForcesLimitOne ==
  [][lastCall'.op = "first" =>
       \E q \in {toSQL([builder EXCEPT !._limit = Num(1)])} :
       \E whole \in {toSQL([builder EXCEPT !._limit = Undefined,
                                           !._offset = Undefined])} :
       \E skip \in {IF builder._offset = Undefined THEN 0 ELSE builder._offset.n} :
         /\ executed' = <<q>>
         /\ q.sql[KeywordAt(q.sql, "LIMIT") + 1] = "1"
         /\ builder' = [builder EXCEPT !._limit = Num(1)]
         /\ db' = db
         /\ IF Prepare(q.sql)
            THEN \E result \in {Execute(db, whole.sql, whole.params)} :
                   /\ result.ok
                   /\ returned' = IF Len(result.rows) > skip
                                  THEN result.rows[skip + 1] ELSE Null
            ELSE returned' = Thrown
    ]_vars

\* first() on a builder that was given limit 2 returned a row
C10_Witness ==
  /\ lastCall.op = "first"
  /\ input._limit = Num(2)
  /\ builder._limit = Num(1)
  /\ returned.t = "object"
  /\ Len(executed) = 1

\* the rows of the query of builder b in database d, its limit and offset
\* left out, and those of them past the offset
Matching(d, b) ==
  The({SubSeq(whole.rows, skip + 1, Len(whole.rows)) :
         whole \in {The({Execute(d, q.sql, q.params) :
                           q \in {toSQL([b EXCEPT !._limit = Undefined,
                                                  !._offset = Undefined])}})},
         skip \in {IF b._offset = Undefined THEN 0 ELSE b._offset.n}})

\* the rows of database d whose primary key is id
WithId(d, id) == SelectSeq(d.rows, LAMBDA r : GetKey(r, d.primaryKey) = id)

(* C11.  Only firstOrFail() and findByIdOrFail() raise the not-found       *)
(* failure.  On a statement the engine accepts, firstOrFail() raises it    *)
(* exactly when the query has no row and returns the first row otherwise;  *)
(* findByIdOrFail(id) raises it exactly when no row has the id and         *)
(* returns that row otherwise.  For an empty result first() and            *)
(* findById() return null and all() and run() return an empty list; none   *)
(* of them raises.                                                         *)
C11_NotFoundOnlyFromOrFail ==
  [][terminals' = terminals + 1 =>
       \E op \in {lastCall'.op} :
         /\ returned' = NotFound => op \in {"firstOrFail", "findByIdOrFail"}
         /\ op \in {"first", "firstOrFail", "all", "run"} /\ returned' # Thrown =>
              \E rows \in {Matching(db, builder)} :
                CASE op = "firstOrFail" ->
                       /\ returned' = NotFound <=> rows = <<>>
                       /\ rows # <<>> => returned' = rows[1]
                  [] op = "first" ->
                       returned' = IF rows = <<>> THEN Null ELSE rows[1]
                  [] OTHER ->
                       rows = <<>> => returned' = Arr(<<>>)
         /\ op \in {"findById", "findByIdOrFail"} =>
              \E rows \in {WithId(db, lastCall'.a)} :
                CASE op = "findByIdOrFail" ->
                       /\ returned' = NotFound <=> rows = <<>>
                       /\ rows # <<>> => returned' = Obj(rows[1])
                  [] OTHER ->
                       returned' = IF rows = <<>> THEN Null ELSE Obj(rows[1])
    ]_vars

\* firstOrFail() raised the not-found failure on a query without rows
C11_Witness ==
  /\ lastCall.op = "firstOrFail"
  /\ returned = NotFound
  /\ Len(input._where) > 0
  /\ Len(executed) = 1

\* the rows of database d that satisfy the AND-state of builder b
AndRows(d, b) == Matching(d, [NewBuilder("select", <<>>) EXCEPT !._where = b._where])

\* the rows of the group whose key comes first under the columns cols; all
\* the rows when there are no columns
FirstGroup(rows, cols) ==
  IF cols = <<>> THEN rows
  ELSE SelectSeq(rows, LAMBDA r :
         \A k \in 1..Len(rows) : ~KeyBefore(rows[k].ents, r.ents, cols))

(* C12.  count() returns the number of rows that satisfy the AND-state,    *)
(* whatever OR branches, GROUP BY, HAVING, LIMIT and OFFSET the builder    *)
(* has.  sum, avg, min and max(column) return the function over the rows   *)
(* that satisfy the AND-state, whatever the OR branches, HAVING, LIMIT and *)
(* OFFSET: over all of them without GROUP BY (0 when there is no value),   *)
(* and over the group of the first key with GROUP BY, where no row at all  *)
(* makes the call fail on the missing result row.                          *)
C12_CountAndAggregatesUseAndState ==
  [][terminals' = terminals + 1 =>
       \E rows \in {AndRows(db, builder)} :
       \E op \in {lastCall'.op} :
         /\ op = "count" => returned' = Num(Len(rows))
         /\ op \in aggregateFunctions =>
              \E group \in {FirstGroup(rows, builder._groupBy)} :
              \E value \in {AggregateOf(op, [k \in 1..Len(group) |->
                                               GetKey(group[k].ents, lastCall'.a.s)])} :
                returned' = IF group = <<>> /\ builder._groupBy # <<>> THEN TypeError
                            ELSE IF value = Null THEN Num(0) ELSE value
         /\ db' = db
    ]_vars

\* sum("id") on a grouped builder with an AND-state and an OR branch gave
\* the sum over the two rows of the AND-state
C12_Witness ==
  /\ lastCall.op = "SUM"
  /\ Len(input._where) > 0
  /\ Len(input._orConditions) > 0
  /\ input._groupBy # <<>>
  /\ input._limit # Undefined
  /\ returned = Num(3)

\* the rows of database d that satisfy a condition mapping
Satisfying(d, mapping) ==
  Matching(d, [NewBuilder("select", <<>>) EXCEPT !._where = OwnEntries(mapping)])

\* the rows of database d that have the value data gives for the primary
\* key of the table
Conflicting(d, data) ==
  SelectSeq(d.rows, LAMBDA r :
    /\ d.primaryKey # ""
    /\ GetKey(data, d.primaryKey) \notin {Undefined, Null}
    /\ GetKey(r, d.primaryKey) = GetKey(data, d.primaryKey))

\* the record SELECT * gives for the row of database d with the rowid id
Stored(d, id) ==
  The({IF rows = <<>> THEN Null ELSE rows[1] :
         rows \in {SelectSeq(Satisfying(d, Obj(<<>>)), LAMBDA r :
                     \E i \in 1..Len(d.rows) :
                       /\ GetKey(d.rows[i], rowid) = id
                       /\ \A k \in 1..Len(r.ents) :
                            GetKey(d.rows[i], r.ents[k].k) = r.ents[k].v)}})

\* an INSERT is among the statements
InsertExecuted(stmts) == \E i \in 1..Len(stmts) : stmts[i].sql[1] = "INSERT"

(* C13, as stated.  run() of an Insert builder with ifNotExists(mapping):  *)
(* when a row of the table satisfies the mapping it returns null and the   *)
(* rows are as they were; when no row does, and no row has the key of the  *)
(* new row in a table with an INTEGER PRIMARY KEY, the table has one row   *)
(* more and run() returns that row as stored.                              *)
C13_IfNotExistsSkipsOrInserts ==
  [][/\ lastCall'.op = "run"
     /\ builder.kind = "insert"
     /\ builder._checkCondition # Null
     =>
       \E hits \in {Satisfying(db, builder._checkCondition)} :
         IF hits # <<>>
         THEN returned' = Null /\ db'.rows = db.rows
         ELSE db.primaryKey = rowid /\ Conflicting(db, builder._data) = <<>> =>
                /\ Len(db'.rows) = Len(db.rows) + 1
                /\ returned' # Null
                /\ returned' = Stored(db', Num(db'.lastRowid))
    ]_vars

(* C14.  run() of an Insert builder in "ignore" mode whose INSERT meets a  *)
(* row with the primary key of the new row: it does not throw, the engine  *)
(* reports zero changes, run() returns null, and the rows of the table,    *)
(* the conflicting row among them, are as they were.                       *)
C14_IgnoreSkipsOnConflict ==
  [][/\ lastCall'.op = "run"
     /\ builder.kind = "insert"
     /\ builder._conflictResolution = "ignore"
     /\ InsertExecuted(executed')
     /\ Conflicting(db, builder._data) # <<>>
     =>
       /\ returned' = Null
       /\ db'.changes = 0
       /\ db'.rows = db.rows
       /\ executed'[Len(executed')] = Statement(changesSql, <<>>)
    ]_vars

\* an insert in "ignore" mode met the row with its key and returned null
C14_Witness ==
  /\ lastCall.op = "run"
  /\ builder.kind = "insert"
  /\ builder._conflictResolution = "ignore"
  /\ InsertExecuted(executed)
  /\ Conflicting(db, builder._data) # <<>>
  /\ returned = Null
  /\ terminals = 1

(* C15, as stated.  run() of an Insert builder in "replace" mode, without  *)
(* ifNotExists, whose INSERT meets a row with the primary key of the new   *)
(* row: it returns a record that has the supplied values, and afterwards   *)
(* exactly one row has that key.                                           *)
C15_ReplaceReturnsReplacement ==
  [][/\ lastCall'.op = "run"
     /\ builder.kind = "insert"
     /\ builder._conflictResolution = "replace"
     /\ builder._checkCondition = Null
     /\ Conflicting(db, builder._data) # <<>>
     =>
       /\ Len(Conflicting(db', builder._data)) = 1
       /\ returned'.t = "object"
       /\ \A i \in 1..Len(builder._data) :
            GetKey(returned'.ents, builder._data[i].k) = builder._data[i].v
    ]_vars

(* C16, as stated.  run() of an Insert builder that does not throw returns *)
(* null exactly when no row was inserted (the ifNotExists check stopped    *)
(* it, or the engine reported zero changes).  When a row was inserted it   *)
(* returns that row as stored when the table has a primary key, and a      *)
(* record equal to the supplied data when it has none.                     *)
C16_NullIffSkipped ==
  [][/\ lastCall'.op = "run"
     /\ builder.kind = "insert"
     /\ returned' # Thrown
     =>
       \E inserted \in {InsertExecuted(executed') /\ db'.changes > 0} :
         /\ returned' = Null <=> ~inserted
         /\ ~inserted => db'.rows = db.rows
         /\ inserted /\ db.primaryKey # "" =>
              returned' = Stored(db', Num(db'.lastRowid))
         /\ inserted /\ db.primaryKey = "" => returned' = Obj(builder._data)
    ]_vars

\* does the row satisfy every condition of the entries: the compiled
\* fragment is true on it; entries that compile to no fragment ask nothing
SatisfiesAll(row, ents) ==
  \E c \in {buildWhereClause(ents)} :
    c.sql = <<>> \/ EvalWhere(BindTokens(c.sql, c.params), row) = "T"

\* the rows of the table after the rows at the indexes hit were written by
\* builder b: given the SET values, or removed
Written(rows, hit, b) ==
  IF b.kind = "update"
  THEN [i \in 1..Len(rows) |->
          IF i \in hit
          THEN [k \in 1..Len(rows[i]) |->
                  IF GetKey(b._data, rows[i][k].k) = Undefined THEN rows[i][k]
                  ELSE Entry(rows[i][k].k, GetKey(b._data, rows[i][k].k))]
          ELSE rows[i]]
  ELSE SelectSeq(rows, LAMBDA r : \A i \in hit : rows[i] # r)

\* does an entry list compile to no fragment
CompilesEmpty(ents) == buildWhereClause(ents).sql = <<>>

revaluations == 1..3

\* the value a string or number is exchanged for
Exchanged(v, n) ==
  CASE n = 1 -> Scalar("zzz")
    [] n = 2 -> Num(0)
    [] n = 3 -> IF v.t = "number" THEN Num(v.n + 1)
                ELSE IF v = Scalar("active") THEN Scalar("admin") ELSE v

RECURSIVE Revalued(_, _)
\* a value with the strings and numbers in it exchanged; null, undefined,
\* booleans and the shape of bags and lists stay
Revalued(v, n) ==
  CASE v.t \in {"scalar", "number"} -> Exchanged(v, n)
    [] v.t = "array" -> Arr([i \in 1..Len(v.items) |-> Revalued(v.items[i], n)])
    [] v.t = "object" ->
         Obj([i \in 1..Len(v.ents) |-> Entry(v.ents[i].k, Revalued(v.ents[i].v, n))])
    [] OTHER -> v

\* a builder that differs from b in the string and number values of its
\* conditions and its data only
RevaluedBuilder(b, n) ==
  [b EXCEPT !._where = Revalued(Obj(@), n).ents,
            !._orConditions = [i \in 1..Len(@) |-> Revalued(@[i], n)],
            !._having = Revalued(Obj(@), n).ents,
            !._data = Revalued(Obj(@), n).ents]

RECURSIVE ScalarsOf(_)
\* the strings and numbers in a value
ScalarsOf(v) ==
  CASE v.t \in {"scalar", "number"} -> {v}
    [] v.t = "array" -> UNION {ScalarsOf(v.items[i]) : i \in 1..Len(v.items)}
    [] v.t = "object" -> UNION {ScalarsOf(v.ents[i].v) : i \in 1..Len(v.ents)}
    [] OTHER -> {}

\* the strings and numbers in the conditions and the data of a builder
BuilderScalars(b) ==
  ScalarsOf(Obj(b._where)) \cup ScalarsOf(Arr(b._orConditions))
    \cup ScalarsOf(Obj(b._having)) \cup ScalarsOf(Obj(b._data))

\* the integers a statement can hold as literals
literalTokens == {ToString(k) : k \in 0..20}

(* C18.  The string and number values of the conditions, the SET data and  *)
(* the insert data are in the parameter list and never in the SQL text:    *)
(* a builder that differs in those values only renders the same SQL text,  *)
(* and its parameters are the exchanged parameters; no token of the text   *)
(* is such a value, bare or as a literal, except where it stands as the    *)
(* LIMIT or OFFSET; and the only integer literals of the text are the      *)
(* limit after LIMIT and the offset after OFFSET.                          *)
C18_ValuesOnlyAsParameters ==
  \E q \in {toSQL(builder)} :
    /\ \A n \in revaluations :
         \E r \in {toSQL(RevaluedBuilder(builder, n))} :
           /\ r.sql = q.sql
           /\ r.params = [i \in 1..Len(q.params) |-> Revalued(q.params[i], n)]
    /\ \A v \in BuilderScalars(builder) :
         /\ \E i \in 1..Len(q.params) : q.params[i] = v
         /\ \A i \in 1..Len(q.sql) :
              \/ i > 1 /\ q.sql[i - 1] \in {"LIMIT", "OFFSET"}
              \/ q.sql[i] \notin {LiteralOf(v), IF v.t = "scalar" THEN v.s ELSE ""}
    /\ \A i \in 1..Len(q.sql) :
         q.sql[i] \in literalTokens =>
           /\ i > 1
           /\ \/ q.sql[i - 1] = "LIMIT" /\ q.sql[i] = ToString(builder._limit.n)
              \/ q.sql[i - 1] = "OFFSET" /\ q.sql[i] = ToString(builder._offset.n)

\* a Select builder with a limit whose conditions hold a number equal to the
\* limit, strings, a list and a null
C18_Witness ==
  /\ builder.kind = "select"
  /\ builder._limit = Num(2)
  /\ GetKey(builder._where, "id") = Num(2)
  /\ GetKey(builder._where, "role") = inList
  /\ builder._orConditions # <<>>
  /\ builder._offset # Undefined
  /\ RevaluedBuilder(builder, 3) # builder

\* the names of the table and of its columns, as the caller gives them
bareNames == {tableName} \cup {tableColumns[i] : i \in 1..Len(tableColumns)}

\* the tokens between SELECT [DISTINCT] and FROM
SelectList(sql) ==
  SubSeq(sql, IF sql[2] = "DISTINCT" THEN 3 ELSE 2, TokenAt(sql, "FROM") - 1)

(* C19, as stated.  Every table and column name in the rendered statement  *)
(* stands in double quotes: no token is a bare name; the table after FROM, *)
(* the columns of select(...), of GROUP BY, of ORDER BY and of the         *)
(* conditions are the quoted names.                                        *)
C19_IdentifiersQuoted ==
  \E sql \in {toSQL(builder).sql} :
    /\ \A i \in 1..Len(sql) : sql[i] \notin bareNames
    /\ sql[TokenAt(sql, "FROM") + 1] = Quote(tableName)
    /\ builder._select # <<"*">> =>
         SelectList(sql) = Join([i \in 1..Len(builder._select) |->
                                   <<Quote(builder._select[i])>>], ",")
    /\ \A i \in 1..Len(builder._groupBy) :
         \E k \in 1..Len(sql) : sql[k] = Quote(builder._groupBy[i])
    /\ \A i \in 1..Len(builder._orderBy) :
         \E k \in 1..Len(sql) : sql[k] = Quote(builder._orderBy[i].column)
    /\ \A i \in 1..Len(builder._where) :
         \E k \in 1..Len(sql) : sql[k] = Quote(builder._where[i].k)

(* C20, as stated.  Every statement a terminal call executes goes through  *)
(* the statement cache: after the call the text of every statement it      *)
(* executed that the engine accepts is a key of the cache, so that a later *)
(* execution of the text finds the prepared statement there; and the cache *)
(* loses no key.                                                           *)
C20_EveryStatementThroughCache ==
  [][terminals' = terminals + 1 =>
       /\ statementCache \subseteq statementCache'
       /\ \A i \in 1..Len(executed') :
            Prepare(executed'[i].sql) => executed'[i].sql \in statementCache'
    ]_vars

(* C21.  While an instance is open its statement cache only grows: every   *)
(* entry stays, and no text has two entries.  After close() the cache of   *)
(* the instance is empty, and stays so.  The cache is private to its       *)
(* instance: its entries were prepared on the database of the instance,    *)
(* and every statement a call on a Model of the instance runs was prepared *)
(* on that database.                                                       *)
C21_CacheGrowsUntilCloseAndIsPrivate ==
  [][\A h \in handles :
       /\ db'[h].open => statementCache[h] \subseteq statementCache'[h]
       /\ ~db'[h].open => statementCache'[h] = {}
       /\ ~db[h].open => ~db'[h].open
       /\ \A c \in statementCache'[h] :
            /\ c.db = h
            /\ \A e \in statementCache'[h] : e.sql = c.sql => e = c
       /\ lastCall'.a = Num(h) =>
            \A i \in 1..Len(executed') : executed'[i].db = h
    ]_vars

\* both instances cached the same text, each its own statement; the first
\* was closed, and a call on its Model then threw
C21_Witness ==
  /\ ~db[1].open
  /\ statementCache[1] = {}
  /\ db[2].open
  /\ \E c \in statementCache[2] : c.sql = <<"SELECT", "*", "FROM", Quote(tableName)>>
  /\ lastCall.op = "all"
  /\ lastCall.a = Num(1)
  /\ returned = Thrown
  /\ terminals = 3

\* the rows of the table hold the values of data
Holds(rows, data) ==
  \E i \in 1..Len(rows) :
    \A k \in 1..Len(data) : GetKey(rows[i], data[k].k) = data[k].v

(* C22.  transaction(callback) is all-or-nothing.  When the callback       *)
(* returns, every row it inserted is in the table, with the rows that were *)
(* there.  When the callback throws, transaction throws and the rows of    *)
(* the table are those before the call.                                    *)
C22_TransactionAllOrNothing ==
  [][lastCall'.op = "transaction" =>
       \E before \in {db[model].rows}, after \in {db'[model].rows},
          inserted \in {lastCall'.o.items} :
         IF Threw([value |-> returned'])
         THEN after = before
         ELSE /\ Len(after) = Len(before) + Len(inserted)
              /\ \A i \in 1..Len(before) : \E j \in 1..Len(after) : after[j] = before[i]
              /\ \A i \in 1..Len(inserted) : Holds(after, inserted[i].ents)
    ]_vars

\* a callback inserted a row and threw on the next, whose key is stored:
\* the table is as it was
C22_Witness ==
  /\ lastCall.op = "transaction"
  /\ lastCall.o = Arr(<<Obj(newGuest), Obj(storedKey)>>)
  /\ returned = Thrown
  /\ Len(executed) = 4
  /\ executed[1].sql[1] = "INSERT"
  /\ executed[4].sql[1] = "INSERT"
  /\ db[model].rows = initialRows
  /\ db[model].lastRowid = 4

(* C23.  delete(), update(), save() and refresh() of a result wrapper      *)
(* throw when the wrapper knows no primary key and when the row it wraps   *)
(* is null: they do not return a value.                                    *)
C23_WrapperThrowsWithoutKeyOrRow ==
  /\ lastCall.op \in {"delete", "update", "save", "refresh"}
  /\ builder.primaryKey = "" \/ builder._data = Null
  => Threw([value |-> returned])

\* what holds of the wrapper: without a primary key delete(), update() and
\* save() throw, and with one the row is written or read anew
WrapperWritesThrowWithoutKey ==
  /\ lastCall.op \in {"delete", "update", "save"}
  /\ builder._data # Null
  => IF ResultProxy_keyless(builder) THEN returned = NoPrimaryKey /\ executed = <<>>
     ELSE returned \in {Num(0), Num(1)} /\ executed # <<>>

(* C24.  On the Update and Delete builders where(column, value) renders as *)
(* where(column, "=", value) and as where({[column]: value}) do, also when *)
(* the value is an operator symbol; so does orWhere(column, value).        *)
C24_TwoArgumentsAreEquality ==
  [][/\ lastCall'.op \in {"where", "orWhere"}
     /\ lastCall'.a.t = "scalar"
     /\ lastCall'.o # Undefined
     /\ lastCall'.v = Undefined
     => \E column \in {lastCall'.a}, value \in {lastCall'.o} :
        \E three \in {IF lastCall'.op = "where"
                      THEN Builder_where(builder, column, Scalar("="), value)
                      ELSE Builder_orWhere(builder, column, Scalar("="), value)},
           mapping \in {IF lastCall'.op = "where"
                        THEN Builder_where(builder, One(column.s, value), Undefined, Undefined)
                        ELSE Builder_orWhere(builder, One(column.s, value),
                                             Undefined, Undefined)} :
          /\ toSQL(builder') = toSQL(three)
          /\ toSQL(builder') = toSQL(mapping)
    ]_vars

\* what holds of the two-argument call: the column is spread as a mapping,
\* its characters the values
TwoArgumentsSpreadTheColumn ==
  /\ lastCall.op = "where"
  /\ lastCall.a.t = "scalar"
  /\ lastCall.o # Undefined
  /\ lastCall.v = Undefined
  => \A i \in 1..Len(Characters(lastCall.a.s)) :
       GetKey(builder._where, indexKeys[i]) = Scalar(Characters(lastCall.a.s)[i])

\* the outcome of builder.run() on the database d: the statement of the
\* builder runs and the count of the rows it changed is returned
RunOf(b, d) ==
  LET q == toSQL(b)
  IN IF ~Prepare(q.sql) THEN [value |-> Thrown, rows |-> d.rows]
     ELSE The({IF r.ok THEN [value |-> Num(r.db.changes), rows |-> r.db.rows]
               ELSE [value |-> Thrown, rows |-> d.rows] :
                 r \in {Execute(d, q.sql, q.params)}})

(* C25.  Model.delete(where) returns what Model.delete().where(where)      *)
(* .run() returns and leaves the rows it leaves, and Model.update(where,   *)
(* data) does as Model.update(data).where(where).run(), for every          *)
(* condition mapping: scalars, operator bags, the empty mapping.           *)
C25_ImmediateFormsAsBuilderForms ==
  [][lastCall'.op \in {"delete", "update"} =>
       \E b \in {IF lastCall'.op = "delete"
                 THEN Builder_where(NewBuilder("delete", <<>>), lastCall'.o,
                                    Undefined, Undefined)
                 ELSE Builder_where(NewBuilder("update", lastCall'.o.items[2].ents),
                                    lastCall'.o.items[1], Undefined, Undefined)} :
       \E run \in {RunOf(b, db[model])} :
         /\ returned' = run.value
         /\ db'[model].rows = run.rows
    ]_vars

\* what holds of the calls that execute, on a mapping that is not empty and
\* holds scalars and null: they do as the builders
ImmediateFormsOnScalars ==
  [][/\ lastCall'.op \in {"delete", "update"}
     /\ \E where \in {IF lastCall'.op = "delete" THEN lastCall'.o
                      ELSE lastCall'.o.items[1]} :
          /\ where.ents # <<>>
          /\ \A i \in 1..Len(where.ents) : where.ents[i].v.t \in {"scalar", "number", "null"}
     => \E b \in {IF lastCall'.op = "delete"
                  THEN Builder_where(NewBuilder("delete", <<>>), lastCall'.o,
                                     Undefined, Undefined)
                  ELSE Builder_where(NewBuilder("update", lastCall'.o.items[2].ents),
                                     lastCall'.o.items[1], Undefined, Undefined)} :
        \E run \in {RunOf(b, db[model])} :
          /\ returned' = run.value
          /\ db'[model].rows = run.rows
    ]_vars

\* the bag is empty, or every payload of it is undefined
Fragmentless(v) ==
  /\ v.t = "object"
  /\ \A i \in 1..Len(v.ents) : v.ents[i].v = Undefined

\* the mapping without its i-th column
WithoutColumn(where, i) == SubSeq(where, 1, i - 1) \o SubSeq(where, i + 1, Len(where))

(* C26.  A column of a condition mapping whose bag is empty, or has only   *)
(* undefined payloads, is dropped: the fragment and the parameters are     *)
(* those of the mapping without the column, and no AND is left dangling.   *)
C26_FragmentlessColumnDropped ==
  input # Undefined /\ input.f = "buildWhereClause" /\ output # Undefined =>
    \A i \in 1..Len(input.where) :
      Fragmentless(input.where[i].v) =>
        output = buildWhereClause(WithoutColumn(input.where, i))

\* what holds of a mapping without such a column: the fragments of its
\* columns, none of them empty, joined by AND
FragmentsJoined ==
  /\ input # Undefined /\ input.f = "buildWhereClause" /\ output # Undefined
  /\ \A i \in 1..Len(input.where) : ~Fragmentless(input.where[i].v)
  => /\ output.sql = Join([i \in 1..Len(input.where) |->
                             buildCondition(input.where[i].k, input.where[i].v).sql], "AND")
     /\ \A i \in 1..Len(input.where) :
          buildCondition(input.where[i].k, input.where[i].v).sql # <<>>

\* the rows of the table with the primary key of data
RowsOf(d, data) ==
  SelectSeq(d.rows, LAMBDA r : GetKey(r, d.primaryKey) = GetKey(data, d.primaryKey))

(* C27.  Model.upsertOn(data, conflictColumns) returns the row the call    *)
(* inserted or updated: the row of the table that has the key of data,     *)
(* also when the call updated a row and rows were inserted before it.      *)
C27_UpsertOnReturnsItsRow ==
  [][lastCall'.op = "upsertOn" /\ ~Threw([value |-> returned']) =>
       \E rows \in {RowsOf(db'[model], lastCall'.o.items[1].ents)} :
         /\ Len(rows) = 1
         /\ returned' = Obj(rows[1])
    ]_vars

\* what holds of upsertOn: when no row had the key of data, the row is
\* inserted and returned
UpsertOnReturnsInsertedRow ==
  [][/\ lastCall'.op = "upsertOn"
     /\ ~Threw([value |-> returned'])
     /\ RowsOf(db[model], lastCall'.o.items[1].ents) = <<>>
     => \E rows \in {RowsOf(db'[model], lastCall'.o.items[1].ents)} :
          /\ Len(rows) = 1
          /\ returned' = Obj(rows[1])
          /\ Len(db'[model].rows) = Len(db[model].rows) + 1
    ]_vars

(* C28.  Every statement the Model executes itself (insert, upsert,        *)
(* upsertOn, update, delete, increment, count) is given as many values as  *)
(* it has placeholders.                                                    *)
C28_ValuesMatchPlaceholders ==
  lastCall.op \in {"insert", "upsert", "upsertOn", "update", "delete", "increment", "count"}
    => \A i \in 1..Len(executed) :
         NumPlaceholders(executed[i].sql) = Len(executed[i].params)

\* what holds of the statements: all but those of upsertOn with updateData
\* are given as many values as they have placeholders
ValuesMatchWithoutUpdateData ==
  /\ lastCall.op \in {"insert", "upsert", "upsertOn", "update", "delete", "increment", "count"}
  /\ lastCall.op = "upsertOn" => lastCall.o.items[3] = Undefined
  => \A i \in 1..Len(executed) :
       NumPlaceholders(executed[i].sql) = Len(executed[i].params)

\* the INSERT statements among the statements that ran
InsertsOf(stmts) == SelectSeq(stmts, LAMBDA q : q.sql[1] = "INSERT")

(* C29.  Model.insertMany(list) inserts the elements one by one in the     *)
(* order of the list and returns their rows in that order.  It is not      *)
(* atomic: when the k-th insert throws, insertMany throws, the rows of the *)
(* first k-1 elements stay in the table and no later element is inserted.  *)
(* The empty list runs no statement and returns the empty list.            *)
C29_InsertManyInOrderNotAtomic ==
  [][lastCall'.op = "insertMany" =>
       \E list \in {lastCall'.o.items}, before \in {db[model].rows},
          after \in {db'[model].rows}, inserts \in {InsertsOf(executed')} :
         /\ list = <<>> => executed' = <<>> /\ returned' = Arr(<<>>)
         /\ SubSeq(after, 1, Len(before)) = before
         /\ \A i \in 1..Len(inserts) : inserts[i].params = ObjectValues(list[i].ents)
         /\ IF Threw([value |-> returned'])
            THEN /\ Len(inserts) \in 1..Len(list)
                 /\ executed'[Len(executed')] = inserts[Len(inserts)]
                 /\ Len(after) = Len(before) + Len(inserts) - 1
                 /\ \A i \in 1..(Len(inserts) - 1) :
                      \A k \in 1..Len(list[i].ents) :
                        GetKey(after[Len(before) + i], list[i].ents[k].k) = list[i].ents[k].v
            ELSE /\ Len(inserts) = Len(list)
                 /\ Len(after) = Len(before) + Len(list)
                 /\ returned'.t = "array" /\ Len(returned'.items) = Len(list)
                 /\ \A i \in 1..Len(list) :
                      /\ returned'.items[i] = Obj(after[Len(before) + i])
                      /\ \A k \in 1..Len(list[i].ents) :
                           GetKey(after[Len(before) + i], list[i].ents[k].k)
                             = list[i].ents[k].v
    ]_vars

\* the second of three inserts threw: the row of the first is in the
\* table, the third was not inserted
C29_Witness ==
  /\ lastCall.op = "insertMany"
  /\ lastCall.o = Arr(<<Obj(newGuest), Obj(storedKey), Obj(newUser)>>)
  /\ returned = Thrown
  /\ Len(InsertsOf(executed)) = 2
  /\ terminals = 1
  /\ Len(db[model].rows) = Len(initialRows) + 1
  /\ GetKey(db[model].rows[Len(initialRows) + 1], "role") = Scalar("guest")

\* in the statement every OFFSET follows a LIMIT and its count
OffsetAfterLimit(sql) ==
  \A i \in 1..Len(sql) : sql[i] = "OFFSET" => i >= 3 /\ sql[i - 2] = "LIMIT"

(* C30.  A SELECT that is rendered with OFFSET has a LIMIT immediately     *)
(* before the OFFSET, whatever calls of limit and offset were made, offset *)
(* without limit included.                                                 *)
C30_OffsetOnlyAfterLimit ==
  builder.kind = "select" => OffsetAfterLimit(toSQL(builder).sql)

\* what holds of the rendering: OFFSET is written whenever offset was
\* called, after the LIMIT when limit was called too
OffsetAfterLimitWhenSet ==
  builder.kind = "select" =>
    \E sql \in {toSQL(builder).sql} :
      /\ builder._offset # Undefined <=> \E i \in 1..Len(sql) : sql[i] = "OFFSET"
      /\ builder._limit # Undefined => OffsetAfterLimit(sql)
      /\ builder._limit = Undefined /\ builder._offset # Undefined => ~Prepare(sql)


====
